---- MODULE Spec2Model ----
(***************************************************************************)
(* MoySklad reconciliation engine: the Celery sync tasks, the two sync     *)
(* services (FixedMoySkladSyncService and MoySkladSyncService), the        *)
(* paginated client fetch, the ON CONFLICT upsert and the foreign-key      *)
(* resolver, over the PostgreSQL store.                                    *)
(*                                                                         *)
(* Granularity: one action per awaited statement (one remote fetch, one    *)
(* upsert statement, one resolver UPDATE statement, one task prologue or   *)
(* epilogue).  A statement takes effect on the store as one atomic step.   *)
(***************************************************************************)
EXTENDS Integers, Sequences, FiniteSets, TLC

\* ------------------------------------------------------------------ bounds
MaxRuns == 2          \* task invocations (one SyncJob each)
MaxFailures == 1      \* remote requests, statements or commits that may fail
MaxChanges == 1       \* edits of the remote dataset between runs
PageLimit == 2        \* default `limit` of get_paginated, scaled down
ExpandLimit == 1      \* cap of `limit` for expand queries, scaled down
MaxRows == 4          \* largest collection fetched by the client alone
MaxCalls == 2         \* syncs run on one service instance

\* ---------------------------------------------------------------- nulls
NULL == "null"        \* None / SQL NULL of a string column
NONE == 0             \* SQL NULL of an integer or timestamp column

Runs == 1..MaxRuns

\* ------------------------------------------------------- remote dataset
NoRef == [meta |-> [href |-> <<>>]]

\* "meta": null
NoMeta == [null |-> TRUE]
Ref(coll, id) == [meta |-> [href |-> <<"entity", coll, id>>]]

FolderChoices == {NULL, "F1", "F2", "F9"}

RemoteInit ==
  [ unit_of_measure |-> << [id |-> "U1", name |-> "pcs"] >>,
    product_folder  |-> << [id |-> "F1", name |-> "root", productFolder |-> NoRef],
                           [id |-> "F2", name |-> "sub",
                            productFolder |-> Ref("productfolder", "F1")] >>,
    store           |-> << [id |-> "S1", name |-> "main"] >>,
    product         |-> << [id |-> "P1", name |-> "nut",
                            productFolder |-> Ref("productfolder", "F1"),
                            uom |-> Ref("uom", "U1"),
                            supplier |-> Ref("counterparty", "C1")],
                           [id |-> "P2", name |-> "bolt",
                            productFolder |-> Ref("productfolder", "F2"),
                            uom |-> Ref("uom", "U1"),
                            supplier |-> NoRef] >>,
    service         |-> << [id |-> "V1", name |-> "fit",
                            productFolder |-> Ref("productfolder", "F1"),
                            uom |-> Ref("uom", "U1")] >>,
    counterparty    |-> << [id |-> "C1", name |-> "acme"] >>,
    stock           |-> << [meta |-> [href |-> <<"entity", "product", "P1">>],
                            stockByStore |-> << [store |-> Ref("store", "S1")] >>],
                           [meta |-> [href |-> << >>], stockByStore |-> << >>],
                           [meta |-> NoMeta, stockByStore |-> << >>] >>,
    currency        |-> << [id |-> "X1", name |-> "rub"],
                           [id |-> "X2", name |-> "usd"] >>,
    country         |-> << [id |-> "N1", name |-> "kz"] >>,
    organization    |-> << [id |-> "O1", name |-> "org"] >>,
    employee        |-> << [id |-> "E1", name |-> "emp",
                            organization |-> Ref("organization", "O1")] >>,
    project         |-> << [id |-> "J1", name |-> "prj"] >>,
    contract        |-> << [id |-> "T1", name |-> "ctr",
                            agent |-> Ref("counterparty", "C1"),
                            ownAgent |-> Ref("organization", "O1"),
                            project |-> Ref("project", "J1")] >> ]

Tables == DOMAIN RemoteInit

LongestCollection ==
  CHOOSE n \in { Len(RemoteInit[t]) : t \in Tables } :
    \A t \in Tables : Len(RemoteInit[t]) <= n

\* --------------------------------------------------------------- client
\* get_paginated: offset starts at 0, each request asks for `limit` rows at
\* `offset`; an empty page or a short page ends the loop; an exception in a
\* request is logged and ends the loop too; the rows loaded so far are
\* returned.  failAt is the number of the request that fails (0: none).
Min(a, b) == IF a < b THEN a ELSE b

Range(q) == { q[i] : i \in 1..Len(q) }

\* Client methods that pass an `expand` parameter.
Expands(t) == t \in {"product", "service", "counterparty"}

\* Mutant: the limit is used as passed.
EffectiveLimitUncapped(expand, limit) == limit

\* `if 'expand' in params: limit = min(limit, 100)`
EffectiveLimit(expand, limit) == IF expand THEN Min(limit, ExpandLimit) ELSE limit

\* The limit in force when a sync method fetches the collection of table t:
\* no caller passes `limit`, so it is the default.
LimitOf(t) == EffectiveLimit(Expands(t), PageLimit)

\* The remote's answer to a request for `limit` rows at `offset`.
Page(rows, offset, limit) ==
  SubSeq(rows, offset + 1, Min(Len(rows), offset + limit))

\* What the loop has done when it ends with the request at `offset`: the
\* rows loaded, the number of requests issued, whether the last one raised
\* and the offsets asked for.
Loaded(all_items, req, failed, offset) ==
  [all_items |-> all_items, requests |-> req, failed |-> failed,
   offsets |-> << offset >>]

\* params["offset"] = offset of an iteration that is followed by `rest`.
Asked(offset, rest) == [rest EXCEPT !.offsets = << offset >> \o @]

\* Mutant: the loop ends on an empty page only.
RECURSIVE PaginateUntilEmpty(_, _, _, _, _, _)
PaginateUntilEmpty(rows, limit, failAt, offset, req, all_items) ==
  IF req = failAt THEN Loaded(all_items, req, TRUE, offset)
  ELSE LET page == Page(rows, offset, limit) IN
       IF Len(page) = 0 THEN Loaded(all_items, req, FALSE, offset)
       ELSE Asked(offset,
                  PaginateUntilEmpty(rows, limit, failAt, offset + Len(page),
                                     req + 1, all_items \o page))

\* Mutant: the offset counts pages, not rows.
RECURSIVE PaginateByPageNumber(_, _, _, _, _, _)
PaginateByPageNumber(rows, limit, failAt, offset, req, all_items) ==
  IF req = failAt THEN Loaded(all_items, req, TRUE, offset)
  ELSE LET page == Page(rows, offset, limit) IN
       IF Len(page) = 0 THEN Loaded(all_items, req, FALSE, offset)
       ELSE IF Len(page) < limit THEN Loaded(all_items \o page, req, FALSE, offset)
       ELSE Asked(offset,
                  PaginateByPageNumber(rows, limit, failAt, offset + 1, req + 1,
                                       all_items \o page))

\* Mutant: the offset does not advance after a full page; the loop is cut
\* off after StalledCutoff requests.
StalledCutoff == MaxRows + 3

RECURSIVE PaginateStalled(_, _, _, _, _, _)
PaginateStalled(rows, limit, failAt, offset, req, all_items) ==
  IF req = failAt THEN Loaded(all_items, req, TRUE, offset)
  ELSE LET page == Page(rows, offset, limit) IN
       IF Len(page) = 0 THEN Loaded(all_items, req, FALSE, offset)
       ELSE IF Len(page) < limit \/ req >= StalledCutoff
            THEN Loaded(all_items \o page, req, FALSE, offset)
       ELSE Asked(offset,
                  PaginateStalled(rows, limit, failAt, offset, req + 1,
                                  all_items \o page))

\* The `while True` loop from request number req on.
RECURSIVE PaginateFrom(_, _, _, _, _, _)
PaginateFrom(rows, limit, failAt, offset, req, all_items) ==
  IF req = failAt THEN Loaded(all_items, req, TRUE, offset)
  ELSE LET page == Page(rows, offset, limit) IN
       IF Len(page) = 0 THEN Loaded(all_items, req, FALSE, offset)
       ELSE IF Len(page) < limit THEN Loaded(all_items \o page, req, FALSE, offset)
       ELSE Asked(offset,
                  PaginateFrom(rows, limit, failAt, offset + Len(page), req + 1,
                               all_items \o page))

get_paginated(rows, limit, failAt) ==
  PaginateFrom(rows, limit, failAt, 0, 1, <<>>).all_items

\* Number of requests get_paginated issues when none fails.
Requests(rows, limit) == PaginateFrom(rows, limit, 0, 0, 1, <<>>).requests

\* ---------------------------------------------------------------- mapper
\* extract_id_from_meta_or_href / _extract_id_from_entity: last path segment
\* of meta.href, None for an absent pointer or an empty href.
extract_id_from_meta_or_href(obj) ==
  LET href == obj.meta.href IN
  IF Len(href) = 0 THEN NULL ELSE href[Len(href)]

\* obj.get("meta", {}).get("href", "") of a pointer whose meta is null:
\* None.get raises AttributeError.
PointerRaises(obj) == obj.meta = NoMeta

Has(d, key) == key \in DOMAIN d

\* dict.get(key, default)
Get(d, key, default) == IF Has(d, key) THEN d[key] ELSE default

PointerOf(d, key) == IF Has(d, key) THEN extract_id_from_meta_or_href(d[key]) ELSE NULL

\* External identifier of a fetched record (None: the record is skipped).
\* A stock report row is keyed by "<product>_<store or default>".
StoreOfStock(d) ==
  IF Has(d, "stockByStore") /\ Len(d.stockByStore) > 0
  THEN PointerOf(d.stockByStore[1], "store") ELSE NULL

ExternalIdOf(t, d) ==
  IF t = "stock"
  THEN LET p == IF PointerRaises(d) THEN NULL ELSE extract_id_from_meta_or_href(d) IN
       IF p = NULL THEN NULL
       ELSE p \o "_" \o (IF StoreOfStock(d) = NULL THEN "default" ELSE StoreOfStock(d))
  ELSE d.id

\* The entity columns written by the insert arm (.values(...)) apart from
\* external_id and last_sync_at.
MappedFields(t, d) ==
  CASE t = "product_folder" ->
         [name |-> d.name, parent_external_id |-> PointerOf(d, "productFolder")]
    [] t = "product" ->
         [name |-> d.name, archived |-> Get(d, "archived", FALSE),
          folder_external_id |-> PointerOf(d, "productFolder"),
          unit_external_id |-> PointerOf(d, "uom"),
          supplier_external_id |-> PointerOf(d, "supplier")]
    [] t = "service" ->
         [name |-> d.name,
          folder_external_id |-> PointerOf(d, "productFolder"),
          unit_external_id |-> PointerOf(d, "uom")]
    [] t = "stock" ->
         [product_external_id |-> extract_id_from_meta_or_href(d),
          store_external_id |-> StoreOfStock(d)]
    [] t = "employee" ->
         [full_name |-> d.name, shared |-> Get(d, "shared", TRUE),
          organization_external_id |-> PointerOf(d, "organization")]
    [] t = "contract" ->
         [name |-> d.name, shared |-> Get(d, "shared", TRUE),
          counterparty_external_id |-> PointerOf(d, "agent"),
          organization_external_id |-> PointerOf(d, "ownAgent"),
          project_external_id |-> PointerOf(d, "project")]
    [] t = "currency" ->
         [name |-> d.name, archived |-> Get(d, "archived", FALSE)]
    [] t \in {"organization", "project"} ->
         [name |-> d.name, shared |-> Get(d, "shared", TRUE)]
    [] OTHER -> [name |-> d.name]

\* Columns of the .values(...) list that the set_ list of the same
\* statement leaves out (MoySkladSyncService only).
InsertOnly(t) ==
  CASE t = "currency" -> {"archived"}
    [] t \in {"organization", "employee", "project", "contract"} -> {"shared"}
    [] OTHER -> {}

\* The entity columns of the set_ list.
UpdatedFields(t, d) ==
  [c \in DOMAIN MappedFields(t, d) \ InsertOnly(t) |-> MappedFields(t, d)[c]]

\* The tables the pending reference columns of table t name (the parent of
\* a folder is a folder and is left out).
PointsTo(t) ==
  CASE t = "product"  -> {"product_folder", "unit_of_measure", "counterparty"}
    [] t = "service"  -> {"product_folder", "unit_of_measure"}
    [] t = "stock"    -> {"product", "store"}
    [] t = "employee" -> {"organization"}
    [] t = "contract" -> {"counterparty", "organization", "project"}
    [] OTHER -> {}

\* Columns the statement never names: the integer foreign keys.
ResolvedDefaults(t) ==
  CASE t = "product"  -> [folder_id |-> NONE, unit_id |-> NONE]
    [] t = "service"  -> [folder_id |-> NONE, unit_id |-> NONE]
    [] t = "stock"    -> [product_id |-> NONE, store_id |-> NONE]
    [] t = "employee" -> [organization_id |-> NONE]
    [] t = "contract" -> [counterparty_id |-> NONE, organization_id |-> NONE,
                          project_id |-> NONE]
    [] OTHER -> [is_deleted |-> FALSE]

FixedTables == {"unit_of_measure", "product_folder", "store", "product",
                "service", "counterparty", "stock"}

\* insert(...).values(...): the named columns plus the column defaults
\* (created_at, updated_at, is_deleted of BaseModel, sync_status of
\* ExternalIdMixin).
InsertValues(t, d, nid, now) ==
  [id |-> nid, external_id |-> ExternalIdOf(t, d), created_at |-> now,
   updated_at |-> now, last_sync_at |-> now, is_deleted |-> FALSE,
   sync_status |-> "pending"]
  @@ MappedFields(t, d) @@ ResolvedDefaults(t)

\* Mutant: the set_ list names created_at too.
ConflictSetStampsCreated(t, d, now) ==
  [created_at |-> now, last_sync_at |-> now, updated_at |-> now] @@ MappedFields(t, d)

\* on_conflict_do_update(set_=...): the Fixed service also sets updated_at,
\* MoySkladSyncService does not.
ConflictSet(t, d, now) ==
  IF t \in FixedTables
  THEN [last_sync_at |-> now, updated_at |-> now] @@ UpdatedFields(t, d)
  ELSE [last_sync_at |-> now] @@ UpdatedFields(t, d)


\* ------------------------------------------------- MoySkladMapper (JSON)
\* JSON values as the mapper and the extraction helpers meet them, tagged
\* by their Python type.  A string is the sequence of its '/'-separated
\* segments.
JNull == [type |-> "null"]
JNum(n) == [type |-> "number", n |-> n]
JStr(segments) == [type |-> "string", s |-> segments]
JList(elems) == [type |-> "list", elems |-> elems]
JDict(items) == [type |-> "dict", items |-> items]

EmptyDict == [k \in {} |-> JNull]

\* Python truth value of a JSON value.
Truthy(v) ==
  CASE v.type = "null"   -> FALSE
    [] v.type = "number" -> v.n # 0
    [] v.type = "string" -> Len(v.s) > 0
    [] v.type = "list"   -> Len(v.elems) > 0
    [] OTHER             -> DOMAIN v.items # {}

\* The outcome of evaluating an expression: a value or an exception.
Ok(v) == [exc |-> "none", v |-> v]
Throw(e) == [exc |-> e]

\* A numeric column value: the quotient as a fraction in lowest terms;
\* None is the empty tuple.
NoNumber == <<>>

RECURSIVE GCD(_, _)
GCD(a, b) == IF b = 0 THEN a ELSE GCD(b, a % b)

Ratio(n, k) == << n \div GCD(n, k), k \div GCD(n, k) >>

\* v / k
Divide(v, k) ==
  IF v.type # "number" THEN Throw("TypeError")
  ELSE IF k = 0 THEN Throw("ZeroDivisionError")
  ELSE Ok(Ratio(v.n, k))

\* obj.get(key, default) of a value that may not be a dict.
GetOf(obj, key, default) ==
  IF obj.type # "dict" THEN Throw("AttributeError")
  ELSE Ok(Get(obj.items, key, default))

\* obj.get('value', 0) / k
ValueOver(obj, k) ==
  LET value == GetOf(obj, "value", JNum(0)) IN
  IF value.exc # "none" THEN value ELSE Divide(value.v, k)

\* seq[0]
First(v) ==
  CASE v.type = "list" -> IF Len(v.elems) = 0 THEN Throw("IndexError") ELSE Ok(v.elems[1])
    [] v.type = "dict" -> Throw("KeyError")
    [] OTHER           -> Throw("TypeError")

\* if 'salePrices' in data and data['salePrices']:
\*     sale_price = data['salePrices'][0].get('value', 0) / 100
MapperSalePrice(data) ==
  IF Has(data, "salePrices") /\ Truthy(data.salePrices)
  THEN LET first == First(data.salePrices) IN
       IF first.exc # "none" THEN first ELSE ValueOver(first.v, 100)
  ELSE Ok(NoNumber)

\* if key in data and data[key]: price = data[key].get('value', 0) / 100
MapperPrice(data, key) ==
  IF Has(data, key) /\ Truthy(data[key]) THEN ValueOver(data[key], 100)
  ELSE Ok(NoNumber)

\* data.get(key, 0) / k if data.get(key) else None
Scaled(data, key, k) ==
  IF Truthy(Get(data, key, JNull)) THEN Divide(data[key], k) ELSE Ok(NoNumber)

\* data.get(key, 0) / 1000
MapperQuantity(data, key) == Divide(Get(data, key, JNum(0)), 1000)

\* if key in data: address = data[key].get('addInfo')
AddInfo(data, key) ==
  IF Has(data, key) THEN GetOf(data[key], "addInfo", JNull) ELSE Ok(JNull)

\* if 'contactpersons' in data and data['contactpersons']:
\*     contact = data['contactpersons'][0]; contact.get(field)
ContactField(data, field) ==
  IF Has(data, "contactpersons") /\ Truthy(data.contactpersons)
  THEN LET contact == First(data.contactpersons) IN
       IF contact.exc # "none" THEN contact ELSE GetOf(contact.v, field, JNull)
  ELSE Ok(JNull)

\* href.split('/')[-1]
LastSegment(href) ==
  IF Len(href.s) = 0 THEN JStr(<< >>) ELSE JStr(<< href.s[Len(href.s)] >>)

\* 'href' in meta: a key test on a dict, a substring test on a string, an
\* element test on a list (no string or element of the records is or holds
\* 'href'), TypeError on a number.
HasHref(meta) ==
  CASE meta.type = "dict"   -> Ok(Has(meta.items, "href"))
    [] meta.type = "number" -> Throw("TypeError")
    [] OTHER                -> Ok(FALSE)

\* MoySkladMapper.extract_id_from_meta: None without a meta or an href,
\* otherwise the last segment of the href; an href that is no string is
\* caught (AttributeError) and gives None.
extract_id_from_meta(meta) ==
  IF ~Truthy(meta) THEN Ok(JNull)
  ELSE IF HasHref(meta).exc # "none" THEN HasHref(meta)
  ELSE IF ~HasHref(meta).v THEN Ok(JNull)
  ELSE LET href == meta.items.href IN
       IF href.type # "string" THEN Ok(JNull) ELSE Ok(LastSegment(href))

\* FixedMoySkladSyncService.extract_id_from_meta_or_href on a JSON value:
\* None for a falsy value, the last segment of a string, the last segment
\* of obj.get("meta", {}).get("href", "") of a dict when that is truthy,
\* None otherwise.
ExtractIdFromMetaOrHref(obj) ==
  IF ~Truthy(obj) THEN Ok(JNull)
  ELSE IF obj.type = "string" THEN Ok(LastSegment(obj))
  ELSE IF obj.type = "dict"
  THEN LET meta == Get(obj.items, "meta", JDict(EmptyDict))
           href == GetOf(meta, "href", JStr(<< >>))
       IN IF href.exc # "none" THEN href
          ELSE IF ~Truthy(href.v) THEN Ok(JNull)
          ELSE IF href.v.type # "string" THEN Throw("AttributeError")
          ELSE Ok(LastSegment(href.v))
  ELSE Ok(JNull)

MapperFunctions == {"map_product_folder", "map_product", "map_service",
                    "map_counterparty", "map_store", "map_stock"}

\* The expressions of a mapper function in evaluation order.
ColumnsOf(fn) ==
  CASE fn = "map_product" ->
         << "sale_price", "buy_price", "min_price", "external_id", "name",
            "weight", "volume", "last_sync_at", "sync_status" >>
    [] fn = "map_service" ->
         << "sale_price", "buy_price", "min_price", "external_id", "name",
            "last_sync_at", "sync_status" >>
    [] fn = "map_counterparty" ->
         << "email", "phone", "legal_address", "actual_address", "external_id",
            "name", "last_sync_at", "sync_status" >>
    [] fn = "map_store" ->
         << "address", "external_id", "name", "last_sync_at", "sync_status" >>
    [] fn = "map_stock" ->
         << "external_id", "stock", "in_transit", "reserve", "available",
            "last_sync_at", "sync_status" >>
    [] OTHER ->
         << "external_id", "name", "last_sync_at", "sync_status" >>

\* What the expression of one column evaluates to.
ColumnOf(fn, c, data, now) ==
  CASE c = "sale_price"     -> MapperSalePrice(data)
    [] c = "buy_price"      -> MapperPrice(data, "buyPrice")
    [] c = "min_price"      -> MapperPrice(data, "minPrice")
    [] c = "weight"         -> Scaled(data, "weight", 1000)
    [] c = "volume"         -> Scaled(data, "volume", 1000000)
    [] c = "email"          -> ContactField(data, "email")
    [] c = "phone"          -> ContactField(data, "phone")
    [] c = "legal_address"  -> AddInfo(data, "legalAddress")
    [] c = "actual_address" -> AddInfo(data, "actualAddress")
    [] c = "address"        -> AddInfo(data, "address")
    [] c = "stock"          -> MapperQuantity(data, "stock")
    [] c = "in_transit"     -> MapperQuantity(data, "inTransit")
    [] c = "reserve"        -> MapperQuantity(data, "reserve")
    [] c = "available"      -> MapperQuantity(data, "quantity")
    [] c = "external_id"    -> extract_id_from_meta(Get(data, "meta", JNull))
    [] c = "name"           -> Ok(Get(data, "name", JStr(<< >>)))
    [] c = "last_sync_at"   -> Ok(now)
    [] OTHER                -> Ok("synced")

\* A call of a mapper function: the dict it returns, or the first
\* exception an expression of it raises.
MapperCall(fn, data, now) ==
  LET cols == ColumnsOf(fn)
      raising == { i \in 1..Len(cols) : ColumnOf(fn, cols[i], data, now).exc # "none" }
  IN IF raising = {}
     THEN Ok([c \in Range(cols) |-> ColumnOf(fn, c, data, now).v])
     ELSE ColumnOf(fn, cols[CHOOSE i \in raising : \A j \in raising : i <= j], data, now)

\* FixedMoySkladSyncService.extract_price_value(price_obj, default=0)
extract_price_value(price_obj) ==
  IF ~Truthy(price_obj) THEN Ok(Ratio(0, 1))
  ELSE IF price_obj.type = "number" THEN Ok(Ratio(price_obj.n, 100))
  ELSE IF price_obj.type = "dict"
  THEN LET value == Get(price_obj.items, "value", JNum(0)) IN
       IF ~Truthy(value) THEN Ok(Ratio(0, 1))
       ELSE IF value.type = "number" THEN Ok(Ratio(value.n, 100))
       ELSE IF value.type = "string" THEN Throw("ValueError")
       ELSE Throw("TypeError")
  ELSE Ok(Ratio(0, 1))

\* FixedMoySkladSyncService.extract_sale_prices
extract_sale_prices(sale_prices) ==
  IF ~Truthy(sale_prices) \/ sale_prices.type # "list" THEN Ok(Ratio(0, 1))
  ELSE extract_price_value(sale_prices.elems[1])

\* The price variables of sync_products before the statement is built.
FixedPrice(data, key) ==
  IF key = "salePrices"
  THEN (IF Has(data, key) /\ Truthy(data[key]) THEN extract_sale_prices(data[key])
        ELSE Ok(Ratio(0, 1)))
  ELSE (IF Has(data, key) THEN extract_price_value(data[key]) ELSE Ok(Ratio(0, 1)))

\* The values of one product statement of sync_products, or the exception
\* the loop's `except` catches.
FixedProductValues(data) ==
  LET F == [sale_price |-> FixedPrice(data, "salePrices"),
            buy_price  |-> FixedPrice(data, "buyPrice"),
            min_price  |-> FixedPrice(data, "minPrice"),
            weight     |-> Scaled(data, "weight", 1000),
            volume     |-> Scaled(data, "volume", 1000000)]
      order == << "sale_price", "buy_price", "min_price", "weight", "volume" >>
      raising == { i \in 1..Len(order) : F[order[i]].exc # "none" }
  IN IF raising = {} THEN Ok([c \in DOMAIN F |-> F[c].v])
     ELSE F[order[CHOOSE i \in raising : \A j \in raising : i <= j]]

\* ----------------------------------------------------------------- store
\* Mutant: a conflict target that every existing row satisfies.
ConflictsWithAnyRow(row, ext) == TRUE

\* ON CONFLICT target: index_elements=["external_id"], backed by the unique
\* constraints uq_<table>_external_id.
Conflicts(row, ext) == row.external_id = ext

\* Mutant: a plain INSERT without the ON CONFLICT arm.
UpsertBlindInsert(rows, t, d, nid, now) == rows \cup { InsertValues(t, d, nid, now) }

\* Mutant: the update arm writes the integer foreign keys back to null.
UpsertClearsResolved(rows, t, d, nid, now) ==
  LET ext == ExternalIdOf(t, d) IN
  IF \E row \in rows : Conflicts(row, ext)
  THEN { IF Conflicts(row, ext)
         THEN ConflictSet(t, d, now) @@ ResolvedDefaults(t) @@ row ELSE row
         : row \in rows }
  ELSE rows \cup { InsertValues(t, d, nid, now) }

\* One INSERT ... ON CONFLICT (external_id) DO UPDATE statement on the rows
\* of table t: the conflicting row takes the set_ columns and keeps all its
\* other columns, otherwise a new row is added with a fresh id.
Upsert(rows, t, d, nid, now) ==
  LET ext == ExternalIdOf(t, d) IN
  IF \E row \in rows : Conflicts(row, ext)
  THEN { IF Conflicts(row, ext) THEN ConflictSet(t, d, now) @@ row ELSE row
         : row \in rows }
  ELSE rows \cup { InsertValues(t, d, nid, now) }

\* result.rowcount of the statement: PostgreSQL reports one affected row
\* for the insert arm and for the update arm alike.
Rowcount(conflict) == 1

\* FixedMoySkladSyncService: `if result.rowcount > 0` counts created.
\* MoySkladSyncService: `if result.rowcount == 2` counts updated.
CountAs(s, rowcount) ==
  IF s = "fixed"
  THEN (IF rowcount > 0 THEN "created" ELSE "updated")
  ELSE (IF rowcount = 2 THEN "updated" ELSE "created")

\* ------------------------------------------------------------- resolver
FK(dep, pending, resolved, ref) ==
  [dep |-> dep, pending |-> pending, resolved |-> resolved, ref |-> ref]

\* update_foreign_key_relationships (Fixed) and resolve_foreign_keys
\* (MoySkladSyncService): the UPDATE statements in source order.
ForeignKeys(s) ==
  IF s = "fixed"
  THEN << FK("product", "folder_external_id", "folder_id", "product_folder"),
          FK("product", "unit_external_id", "unit_id", "unit_of_measure"),
          FK("service", "folder_external_id", "folder_id", "product_folder"),
          FK("service", "unit_external_id", "unit_id", "unit_of_measure"),
          FK("stock", "product_external_id", "product_id", "product"),
          FK("stock", "store_external_id", "store_id", "store") >>
  ELSE << FK("employee", "organization_external_id", "organization_id", "organization"),
          FK("contract", "counterparty_external_id", "counterparty_id", "counterparty"),
          FK("contract", "organization_external_id", "organization_id", "organization"),
          FK("contract", "project_external_id", "project_id", "project"),
          FK("product", "folder_external_id", "folder_id", "product_folder"),
          FK("product", "unit_external_id", "unit_id", "unit_of_measure") >>

\* Mutant: the join condition on external_id is dropped.
MatchesWithoutJoin(row, fk, p) == row[fk.resolved] = NONE

\* Mutant: the IS NULL condition is dropped.
MatchesWithoutNullTest(row, fk, p) ==
  /\ row[fk.pending] # NULL
  /\ p.external_id = row[fk.pending]

\* WHERE dep.<pending> = ref.external_id AND dep.<resolved> IS NULL
Matches(row, fk, p) ==
  /\ row[fk.resolved] = NONE
  /\ row[fk.pending] # NULL
  /\ p.external_id = row[fk.pending]

\* Mutant: the statement updates nothing.
ResolveRowNothing(row, fk, refs) == row

\* Mutant: the statement stamps updated_at on the rows it resolves.
ResolveRowStamps(row, fk, refs) ==
  IF \E p \in refs : Matches(row, fk, p)
  THEN [row EXCEPT ![fk.resolved] = (CHOOSE p \in refs : Matches(row, fk, p)).id,
                   !.updated_at = @ + 1]
  ELSE row

\* UPDATE dep SET <resolved> = ref.id FROM ref WHERE ...
ResolveRow(row, fk, refs) ==
  IF \E p \in refs : Matches(row, fk, p)
  THEN [row EXCEPT ![fk.resolved] = (CHOOSE p \in refs : Matches(row, fk, p)).id]
  ELSE row

ResolveStatement(dbv, fk) ==
  [dbv EXCEPT ![fk.dep] = { ResolveRow(row, fk, dbv[fk.ref]) : row \in dbv[fk.dep] }]

RECURSIVE ResolveFrom(_, _, _)
ResolveFrom(dbv, fks, i) ==
  IF i > Len(fks) THEN dbv ELSE ResolveFrom(ResolveStatement(dbv, fks[i]), fks, i + 1)

\* A whole resolver pass.
ResolvePass(dbv, s) == ResolveFrom(dbv, ForeignKeys(s), 1)

\* --------------------------------------------------------- orchestrator
\* Mutant: full_sync of the Fixed service syncs stock and products first.
OrderDependentsFirst(s, k) ==
  CASE s = "fixed" /\ k = "full" ->
         << "stock", "product", "unit_of_measure", "product_folder", "store",
            "service", "counterparty" >>
    [] s = "fixed" /\ k = "incremental" ->
         << "product", "service", "counterparty", "stock" >>
    [] s = "plain" /\ k = "full" ->
         << "currency", "country", "organization", "employee", "project",
            "contract" >>
    [] OTHER -> << "organization", "employee" >>

\* Entity order of full_sync / incremental_sync of each service.
Order(s, k) ==
  CASE s = "fixed" /\ k = "full" ->
         << "unit_of_measure", "product_folder", "store", "product",
            "service", "counterparty", "stock" >>
    [] s = "fixed" /\ k = "incremental" ->
         << "product", "service", "counterparty", "stock" >>
    [] s = "plain" /\ k = "full" ->
         << "currency", "country", "organization", "employee", "project",
            "contract" >>
    [] OTHER -> << "organization", "employee" >>

\* MoySkladSyncService.full_sync has the resolver call commented out.
InvokesResolver(s, k) == ~(s = "plain" /\ k = "full")

\* Only Fixed full_sync runs client.test_connection() first.
TestsConnection(s, k) == s = "fixed" /\ k = "full"

Counters == [created |-> 0, updated |-> 0, errors |-> 0]

EmptyResults == [t \in {} |-> Counters]

\* self.results after __init__.
ResultsInit(s) == IF s = "fixed" THEN [t \in FixedTables |-> Counters] ELSE EmptyResults

RECURSIVE SumOver(_, _, _)
SumOver(f, keys, field) ==
  IF keys = {} THEN 0
  ELSE LET k == CHOOSE x \in keys : TRUE IN
       (IF Has(f[k], field) THEN f[k][field] ELSE 0) + SumOver(f, keys \ {k}, field)

Total(results, field) == SumOver(results, DOMAIN results, field)

\* "duration_seconds": (datetime.utcnow() - start_time).total_seconds()
Timed(result, start_time, now) == [duration_seconds |-> now - start_time] @@ result

\* The dict returned by full_sync / incremental_sync (without its duration).
ResultOf(s, k, results) ==
  CASE s = "fixed" /\ k = "full" ->
         [status |-> "completed",
          summary |-> [total_created |-> Total(results, "created"),
                       total_updated |-> Total(results, "updated"),
                       total_errors |-> Total(results, "errors")],
          details |-> results]
    [] s = "fixed" /\ k = "incremental" ->
         [status |-> "completed",
          total_updated |-> Total(results, "updated") + Total(results, "created"),
          details |-> results]
    [] s = "plain" /\ k = "full" ->
         [status |-> "completed", results |-> results]
    [] OTHER ->
         [status |-> "completed", total_updated |-> Total(results, "updated"),
          details |-> results]

\* --------------------------------------------- client: auth and probe
\* Truth value of an optional string.
Present(v) == v # NULL /\ v # ""

\* `a or b`
Or(a, b) == IF Present(a) THEN a ELSE b

NoClient == [username |-> NULL, password |-> NULL, token |-> NULL,
             method |-> "none", headers |-> [Authorization |-> << >>]]

\* Mutant: the username/password pair is tried before the token.
AuthenticateBasicFirst(username, password, token) ==
  IF Present(username) /\ Present(password)
  THEN [method |-> "basic",
        headers |-> [Authorization |-> << "Basic", username, ":", password >>]]
  ELSE IF Present(token)
  THEN [method |-> "bearer", headers |-> [Authorization |-> << "Bearer", token >>]]
  ELSE [method |-> "raised", headers |-> [Authorization |-> << >>]]

\* MoySkladClient.__init__ from `# Setup authentication` on: the
\* Authorization header (the base64 of "username:password" is kept as its
\* parts), or IntegrationError.
Authenticate(username, password, token) ==
  IF Present(token)
  THEN [method |-> "bearer", headers |-> [Authorization |-> << "Bearer", token >>]]
  ELSE IF Present(username) /\ Present(password)
  THEN [method |-> "basic",
        headers |-> [Authorization |-> << "Basic", username, ":", password >>]]
  ELSE [method |-> "raised", headers |-> [Authorization |-> << >>]]

\* The answers of the remote to one request: a status and a body, or no
\* answer at all.
JInvalid == [type |-> "invalid"]
JEmpty == [type |-> "empty"]

Answer(kind, status, body) == [kind |-> kind, status |-> status, body |-> body]

Answers ==
  { Answer("response", 200, JDict([rows |-> JList(<< JDict([id |-> JStr(<< "O1" >>)]) >>)])),
    Answer("response", 200, JDict([rows |-> JList(<< >>)])),
    Answer("response", 200, JDict([rows |-> JNull])),
    Answer("response", 200, JDict(EmptyDict)),
    Answer("response", 200, JList(<< >>)),
    Answer("response", 200, JNull),
    Answer("response", 200, JEmpty),
    Answer("response", 200, JInvalid),
    Answer("response", 401, JEmpty),
    Answer("response", 403, JEmpty),
    Answer("response", 500, JEmpty),
    Answer("transport", 0, JEmpty) }

\* _make_request: the parsed body, {} for an empty one, IntegrationError
\* for a transport error, an error status or a body that is no JSON, and
\* whatever `len(result.get('rows', []))` raises on a body of another shape.
make_request(answer) ==
  IF answer.kind = "transport" THEN Throw("IntegrationError")
  ELSE IF answer.status >= 400 THEN Throw("IntegrationError")
  ELSE IF answer.body.type = "empty" THEN Ok(JDict(EmptyDict))
  ELSE IF answer.body.type = "invalid" THEN Throw("IntegrationError")
  ELSE IF answer.body.type # "dict" THEN Throw("AttributeError")
  ELSE IF Get(answer.body.items, "rows", JList(<< >>)).type # "list"
  THEN Throw("TypeError")
  ELSE Ok(answer.body)

\* Mutant: test_connection without its `except Exception` arm.
TestConnectionLetsThrough(answer) ==
  LET response == make_request(answer) IN
  IF response.exc = "IntegrationError" THEN Ok([success |-> FALSE])
  ELSE IF response.exc # "none" THEN response
  ELSE IF Truthy(response.v) /\ Has(response.v.items, "rows")
  THEN Ok([success |-> TRUE,
           organizations_count |-> Len(response.v.items.rows.elems)])
  ELSE Ok([success |-> TRUE])

\* MoySkladClient.test_connection: one self.get("entity/organization"),
\* the result dict built from the answer or in one of the two except arms.
test_connection(answer) ==
  LET response == make_request(answer) IN
  IF response.exc # "none" THEN Ok([success |-> FALSE])
  ELSE IF Truthy(response.v) /\ Has(response.v.items, "rows")
  THEN Ok([success |-> TRUE,
           organizations_count |-> Len(response.v.items.rows.elems)])
  ELSE Ok([success |-> TRUE])

\* ----------------------------------------------------------------- state
VARIABLES
  remote,         \* remote[t]: the ERP collection behind table t, in remote order
  config,         \* the integration_config row of service "moysklad"
  db,             \* db[t]: the rows of table t
  seq,            \* seq[t]: last value handed out by the id sequence of t
  job_table,      \* job_table[r]: the committed sync_job row of task r
  clock,          \* datetime.utcnow()
  task,           \* task[r]: the frame of task r (position and locals)
  failures_left,  \* remote request failures still to come
  changes_left    \* remote/config edits still to come

vars == << remote, config, db, seq, job_table, clock, task, failures_left,
           changes_left >>

NoResult == [status |-> "none"]

\* No row yet.
NoJob == [job_type |-> NULL, status |-> "absent", started_at |-> NONE,
          completed_at |-> NONE, total_items |-> 0, processed_items |-> 0,
          failed_items |-> 0, result_data |-> NoResult, error_message |-> NULL]

\* SyncJob(job_id=task_id, service_name="moysklad", job_type=..., status="running",
\*         started_at=utcnow())
NewJob(k, now) == [NoJob EXCEPT !.job_type = k, !.status = "running", !.started_at = now]

ConfigInit == [exists |-> TRUE, is_enabled |-> TRUE, credentials |-> TRUE,
               sync_status |-> "inactive", last_sync_at |-> NONE,
               error_message |-> NULL]

\* The frame of a task: its position (pc), the service and entry point it
\* runs, the locals of the sync method at work (ent, buffer, pos, created,
\* updated, fk), self.results, the exception in flight (exc, error), the
\* session (sync_job object, tx: state of its open transaction, saved: the
\* store as of its last commit) and what the run has done so far.
IdleTask == [pc |-> "idle", svc |-> "fixed", kind |-> "full", ent |-> 1,
             buffer |-> <<>>, pos |-> 1, results |-> EmptyResults,
             created |-> 0, updated |-> 0, fk |-> 1, error |-> NULL,
             exc |-> "none",
             result |-> NoResult, outcome |-> "none", request_failed |-> FALSE,
             sync_job |-> NoJob,
             tx |-> "ok", saved |-> [t \in Tables |-> {}],
             requests |-> 0, fetch_failed |-> FALSE, offsets |-> << >>,
             call |-> [expand |-> FALSE, limit |-> 0], limit |-> 0,
             requested |-> FALSE, wrote |-> FALSE,
             passed |-> {}, failed_in |-> {}, raised_in |-> NULL,
             write_failed |-> 0, fn |-> NULL, mapped |-> Throw("not called"),
             client |-> NoClient, probes |-> << >>,
             connection |-> Throw("not called"), pointer |-> JNull,
             calls |-> 0]

Init ==
  /\ remote = RemoteInit
  /\ config = ConfigInit
  /\ db = [t \in Tables |-> {}]
  /\ seq = [t \in Tables |-> 0]
  /\ job_table = [r \in Runs |-> NoJob]
  /\ clock = 0
  /\ task = [r \in Runs |-> IdleTask]
  /\ failures_left = MaxFailures
  /\ changes_left = MaxChanges

Set(r, f) == task' = [task EXCEPT ![r] = f @@ task[r]]

Quiet == \A r \in Runs : task[r].pc \in {"idle", "done"}

\* Mutant: the UPDATE of the job row has no WHERE clause.
CommitEveryRow(table, r, obj) == [q \in DOMAIN table |-> obj]

\* db.commit() of the task's session: the SyncJob object reaches the table.
Commit(table, r, obj) == [table EXCEPT ![r] = obj]

\* ------------------------------------------------------------ the tasks
\* moysklad_full_sync / moysklad_incremental_sync (sync_tasks.py, service
\* "plain") and their *_fixed twins (sync_tasks_fixed.py, service "fixed"):
\* create the SyncJob with status running and commit it.
StartTask(r, s, k) ==
  /\ task[r].pc = "idle"
  /\ IF r = 1 THEN TRUE ELSE task[r - 1].pc # "idle"
  /\ clock' = clock + 1
  /\ LET job == NewJob(k, clock + 1) IN
     /\ job_table' = Commit(job_table, r, job)
     /\ Set(r, [pc |-> IF k = "incremental" THEN "check" ELSE "create_client",
                svc |-> s, kind |-> k, results |-> ResultsInit(s),
                sync_job |-> job, saved |-> db])
  /\ UNCHANGED << remote, config, db, seq, failures_left, changes_left >>

\* Sequential dispatch: a task starts when no other task is running.
StartAlone(r, s, k) == Quiet /\ StartTask(r, s, k)

\* sync_job.status = "skipped" ... (incremental task, integration row missing
\* or not enabled)
SkippedJob(job, now) ==
  [job EXCEPT !.status = "skipped", !.completed_at = now,
              !.result_data = [status |-> "skipped"]]

SkipDisabled(r) ==
  /\ task[r].pc = "check"
  /\ ~(config.exists /\ config.is_enabled)
  /\ clock' = clock + 1
  /\ LET job == SkippedJob(task[r].sync_job, clock + 1) IN
     /\ job_table' = Commit(job_table, r, job)
     /\ Set(r, [pc |-> "done", sync_job |-> job, outcome |-> "returned",
                result |-> [status |-> "skipped"]])
  /\ UNCHANGED << remote, config, db, seq, failures_left, changes_left >>

EnterSync(r) ==
  /\ task[r].pc = "check"
  /\ config.exists /\ config.is_enabled
  /\ Set(r, [pc |-> "create_client"])
  /\ UNCHANGED << remote, config, db, seq, job_table, clock, failures_left,
                  changes_left >>

\* Mutant: the row is not tested for presence and is_enabled.
ConfigErrorCredentialsOnly ==
  IF ~config.credentials THEN "MoySklad credentials not configured" ELSE NULL

\* get_integration_config + the credentials test of create_moysklad_client.
ConfigError ==
  IF ~config.exists THEN "MoySklad integration not configured"
  ELSE IF ~config.is_enabled THEN "MoySklad integration is not enabled"
  ELSE IF ~config.credentials THEN "MoySklad credentials not configured"
  ELSE NULL

\* The except arm of full_sync / incremental_sync before the re-raise:
\* MoySkladSyncService.full_sync records the error on the configuration row when
\* get_integration_config still returns it.
ConfigOnError(s, k, msg) ==
  IF s = "plain" /\ k = "full" /\ config.exists /\ config.is_enabled
  THEN [config EXCEPT !.sync_status = "error", !.error_message = msg]
  ELSE config

\* An exception leaves full_sync / incremental_sync for the task's handlers.
Raise(exc, msg) == [pc |-> "handler", exc |-> exc, error |-> msg]

CreateClient(r) ==
  /\ task[r].pc = "create_client"
  /\ ConfigError = NULL
  /\ Set(r, [pc |-> IF TestsConnection(task[r].svc, task[r].kind)
                    THEN "test_connection" ELSE "fetch",
             ent |-> 1])
  /\ UNCHANGED << remote, config, db, seq, job_table, clock, failures_left,
                  changes_left >>

CreateClientRaises(r) ==
  /\ task[r].pc = "create_client"
  /\ ConfigError # NULL
  /\ config' = ConfigOnError(task[r].svc, task[r].kind, ConfigError)
  /\ Set(r, Raise("IntegrationError", ConfigError))
  /\ UNCHANGED << remote, db, seq, job_table, clock, failures_left, changes_left >>

\* client.test_connection() answers success.
TestConnection(r) ==
  /\ task[r].pc = "test_connection"
  /\ Set(r, [pc |-> "fetch", ent |-> 1, requested |-> TRUE])
  /\ UNCHANGED << remote, config, db, seq, job_table, clock, failures_left,
                  changes_left >>

\* The request of test_connection fails (401, 403, other status, transport):
\* it returns success False and full_sync raises IntegrationError.
TestConnectionFails(r) ==
  /\ task[r].pc = "test_connection"
  /\ failures_left > 0
  /\ failures_left' = failures_left - 1
  /\ Set(r, Raise("IntegrationError", "Connection test failed") @@
            [request_failed |-> TRUE, requested |-> TRUE])
  /\ UNCHANGED << remote, config, db, seq, job_table, clock, changes_left >>

\* -------------------------------------------------------- entity syncs
EntityOf(r) == Order(task[r].svc, task[r].kind)[task[r].ent]

\* Where a sync method hands over to: the next sync method, then the
\* resolver (when the entry point calls it), then the return statement.
AfterEntity(f) ==
  IF f.ent < Len(Order(f.svc, f.kind)) THEN [pc |-> "fetch", ent |-> f.ent + 1]
  ELSE IF InvokesResolver(f.svc, f.kind) THEN [pc |-> "resolve", fk |-> 1]
  ELSE [pc |-> "return"]

\* timedelta(hours=24), in clock ticks.
Lookback == 1

\* The updated_since argument the sync methods of an entry point pass to
\* client.get_<entity>(): incremental_sync computes
\* `since = start_time - timedelta(hours=24)` and hands it to no one, and
\* every sync method calls the client without the argument.
UpdatedSince(s, k, start_time) == << >>

\* The collection as the remote reports it under
\* params["filter"] = "updated>=<updated_since>" (no filter for None).
Reported(rows, updated_since) ==
  IF updated_since = << >> THEN rows
  ELSE SelectSeq(rows, LAMBDA d : Get(d, "updated", 0) >= updated_since[1])

\* The collection a sync method of run r is answered with.
Collection(r, t) ==
  Reported(remote[t],
           UpdatedSince(task[r].svc, task[r].kind, task[r].sync_job.started_at))

\* Rows handed to the upsert loop.  Fixed: client.get_<entity>() is
\* get_paginated; MoySkladSyncService: client.get(endpoint) and its "rows".
Fetched(s, t, rows, failAt) ==
  IF s = "fixed" THEN get_paginated(rows, LimitOf(t), failAt) ELSE rows

FetchRequests(s, t, rows) ==
  IF s = "fixed" THEN Requests(rows, LimitOf(t)) ELSE 1

Fetch(r) ==
  /\ task[r].pc = "fetch"
  /\ LET t == EntityOf(r) IN
     Set(r, [pc |-> "upsert", pos |-> 1, created |-> 0, updated |-> 0,
             buffer |-> Fetched(task[r].svc, t, Collection(r, t), 0),
             requests |-> FetchRequests(task[r].svc, t, Collection(r, t)),
             fetch_failed |-> FALSE, requested |-> TRUE, write_failed |-> 0])
  /\ UNCHANGED << remote, config, db, seq, job_table, clock, failures_left,
                  changes_left >>

\* A sync method of MoySkladSyncService ends in its `except Exception`:
\* it returns {"created": 0, "updated": 0, "errors": 1} and the entry point
\* goes on.
ReturnsError(f, t) ==
  AfterEntity(f) @@
  [results |-> (t :> [created |-> 0, updated |-> 0, errors |-> 1]) @@ f.results,
   failed_in |-> f.failed_in \cup {t}]

\* Request number failAt of the fetch raises IntegrationError in
\* _make_request.  get_paginated logs it and returns the rows loaded so
\* far; a sync method of MoySkladSyncService catches it.
FetchFails(r, failAt) ==
  /\ task[r].pc = "fetch"
  /\ failures_left > 0
  /\ failAt \in 1..FetchRequests(task[r].svc, EntityOf(r), Collection(r, EntityOf(r)))
  /\ failures_left' = failures_left - 1
  /\ LET t == EntityOf(r) IN
     IF task[r].svc = "fixed"
     THEN Set(r, [pc |-> "upsert", pos |-> 1, created |-> 0, updated |-> 0,
                  request_failed |-> TRUE, requested |-> TRUE,
                  requests |-> failAt, fetch_failed |-> TRUE, write_failed |-> 0,
                  buffer |-> Fetched("fixed", t, Collection(r, t), failAt)])
     ELSE Set(r, ReturnsError(task[r], t) @@
                 [request_failed |-> TRUE, requested |-> TRUE,
                  requests |-> failAt, fetch_failed |-> TRUE])
  /\ UNCHANGED << remote, config, db, seq, job_table, clock, changes_left >>

\* self.results[...][field] += 1
Bump(c, field) == [c EXCEPT ![field] = @ + 1]

\* The statement of one loop iteration raises.  Fixed: the `except` inside
\* the loop counts one error and the loop goes on.  MoySkladSyncService has
\* no try inside the loop: the method's `except` ends the batch.
RecordError(f, t) ==
  IF f.svc = "fixed"
  THEN [pos |-> f.pos + 1, results |-> [f.results EXCEPT ![t] = Bump(@, "errors")]]
  ELSE ReturnsError(f, t)

\* The expressions of an iteration that precede its `if not <id>: continue`
\* raise: in sync_stock the product id is extracted from the row's meta.
ExtractionRaises(t, d) == t = "stock" /\ PointerRaises(d)

\* One iteration of the `for ..._data in ...` loop: skip a record without
\* id, otherwise execute the upsert statement and count it by rowcount.
\* An exception before that is counted by the `except` of the iteration.
\* In a transaction that a failed statement has aborted the server rejects
\* the statement.
UpsertRecord(r) ==
  /\ task[r].pc = "upsert"
  /\ task[r].pos <= Len(task[r].buffer)
  /\ LET t == EntityOf(r)
         d == task[r].buffer[task[r].pos]
         ext == ExternalIdOf(t, d)
         conflict == \E row \in db[t] : Conflicts(row, ext)
         how == CountAs(task[r].svc, Rowcount(conflict))
     IN IF ExtractionRaises(t, d)
        THEN /\ Set(r, RecordError(task[r], t))
             /\ UNCHANGED << db, seq >>
        ELSE IF ext = NULL
        THEN /\ Set(r, [pos |-> task[r].pos + 1])
             /\ UNCHANGED << db, seq >>
        ELSE IF task[r].tx = "aborted"
        THEN /\ Set(r, RecordError(task[r], t))
             /\ UNCHANGED << db, seq >>
        ELSE /\ db' = [db EXCEPT ![t] = Upsert(db[t], t, d, seq[t] + 1, clock)]
             /\ seq' = [seq EXCEPT ![t] = IF conflict THEN @ ELSE @ + 1]
             /\ IF task[r].svc = "fixed"
                THEN Set(r, [pos |-> task[r].pos + 1, wrote |-> TRUE,
                             results |-> [task[r].results EXCEPT ![t] = Bump(@, how)]])
                ELSE Set(r, [pos |-> task[r].pos + 1, wrote |-> TRUE] @@
                            (how :> (task[r][how] + 1)))
  /\ UNCHANGED << remote, config, job_table, clock, failures_left, changes_left >>

\* How a write fails: while the statement's values are computed ("values":
\* nothing reaches the server) or in the server ("statement": PostgreSQL
\* aborts the open transaction; nothing in the services rolls it back).
WriteFailures == {"values", "statement"}

\* The write of the record at pos fails.
WriteFails(r, how) ==
  /\ task[r].pc = "upsert"
  /\ task[r].pos <= Len(task[r].buffer)
  /\ ExternalIdOf(EntityOf(r), task[r].buffer[task[r].pos]) # NULL
  /\ task[r].tx = "ok"
  /\ failures_left > 0
  /\ failures_left' = failures_left - 1
  /\ Set(r, RecordError(task[r], EntityOf(r)) @@
            [write_failed |-> task[r].pos,
             tx |-> IF how = "statement" THEN "aborted" ELSE "ok"])
  /\ UNCHANGED << remote, config, db, seq, job_table, clock, changes_left >>

\* End of the loop.  Fixed: db.commit(); the COMMIT of an aborted
\* transaction rolls it back without an error.  MoySkladSyncService: the
\* method returns {"created": created, "updated": updated}, stored in
\* self.results.
FinishEntity(r) ==
  /\ task[r].pc = "upsert"
  /\ task[r].pos > Len(task[r].buffer)
  /\ LET t == EntityOf(r) IN
     IF task[r].svc = "fixed"
     THEN /\ db' = IF task[r].tx = "aborted" THEN task[r].saved ELSE db
          /\ Set(r, AfterEntity(task[r]) @@
                    [passed |-> task[r].passed \cup {t}, tx |-> "ok",
                     saved |-> IF task[r].tx = "aborted" THEN task[r].saved ELSE db])
     ELSE /\ db' = db
          /\ Set(r, AfterEntity(task[r]) @@
                    [passed |-> task[r].passed \cup {t},
                     results |-> (t :> [created |-> task[r].created,
                                        updated |-> task[r].updated])
                                 @@ task[r].results])
  /\ UNCHANGED << remote, config, seq, job_table, clock, failures_left,
                  changes_left >>

\* The db.commit() that ends a Fixed sync method raises: the method's
\* `except` rolls back and re-raises, and so does the entry point's.
CommitFails(r) ==
  /\ task[r].pc = "upsert"
  /\ task[r].pos > Len(task[r].buffer)
  /\ task[r].svc = "fixed"
  /\ failures_left > 0
  /\ failures_left' = failures_left - 1
  /\ db' = task[r].saved
  /\ Set(r, Raise("Exception", "commit failed") @@
            [tx |-> "ok", raised_in |-> EntityOf(r),
             failed_in |-> task[r].failed_in \cup {EntityOf(r)}])
  /\ UNCHANGED << remote, config, seq, job_table, clock, changes_left >>

\* One UPDATE statement of the resolver; after the last one the pass is
\* over (Fixed commits) and the entry point builds its result.  In an
\* aborted transaction the statement raises and so does the entry point.
Resolve(r) ==
  /\ task[r].pc = "resolve"
  /\ LET fks == ForeignKeys(task[r].svc) IN
     IF task[r].tx = "aborted"
     THEN /\ db' = db
          /\ Set(r, Raise("Exception", "transaction is aborted"))
     ELSE /\ db' = ResolveStatement(db, fks[task[r].fk])
          /\ IF task[r].fk < Len(fks)
             THEN Set(r, [fk |-> task[r].fk + 1, wrote |-> TRUE])
             ELSE Set(r, [pc |-> "return", wrote |-> TRUE,
                          saved |-> IF task[r].svc = "fixed" THEN db'
                                    ELSE task[r].saved])
  /\ UNCHANGED << remote, config, seq, job_table, clock, failures_left,
                  changes_left >>

\* The end of full_sync / incremental_sync.  MoySkladSyncService full_sync
\* first reads the configuration row again and stamps it; that read raises
\* in an aborted transaction or when the row is gone or disabled, and the
\* `except` arm re-raises.
Return(r) ==
  /\ task[r].pc = "return"
  /\ IF task[r].svc = "plain" /\ task[r].kind = "full"
     THEN IF task[r].tx = "aborted"
          THEN /\ config' = config
               /\ Set(r, Raise("Exception", "transaction is aborted"))
          ELSE IF ~(config.exists /\ config.is_enabled)
          THEN /\ config' = config
               /\ Set(r, Raise("IntegrationError", ConfigError))
          ELSE /\ config' = [config EXCEPT !.last_sync_at = clock,
                                           !.sync_status = "active",
                                           !.error_message = NULL]
               /\ Set(r, [pc |-> "task_ok",
                          result |-> Timed(ResultOf(task[r].svc, task[r].kind,
                                                    task[r].results),
                                           task[r].sync_job.started_at, clock)])
     ELSE /\ config' = config
          /\ Set(r, [pc |-> "task_ok",
                     result |-> Timed(ResultOf(task[r].svc, task[r].kind,
                                               task[r].results),
                                      task[r].sync_job.started_at, clock)])
  /\ UNCHANGED << remote, db, seq, job_table, clock, failures_left, changes_left >>

\* ------------------------------------------------------- task epilogues

\* sync_job.status = "completed" ... with the totals read from the result.
CompletedJob(job, k, res, now) ==
  LET summary == Get(res, "summary", [none |-> 0])
      total == IF k = "full"
               THEN Get(summary, "total_created", 0) + Get(summary, "total_updated", 0)
               ELSE Get(res, "total_updated", 0)
  IN [job EXCEPT !.status = "completed", !.completed_at = now,
                 !.result_data = res, !.total_items = total,
                 !.processed_items = total,
                 !.failed_items = IF k = "full" THEN Get(summary, "total_errors", 0)
                                  ELSE @]

TaskComplete(r) ==
  /\ task[r].pc = "task_ok"
  /\ clock' = clock + 1
  /\ LET job == CompletedJob(task[r].sync_job, task[r].kind, task[r].result,
                             clock + 1) IN
     /\ job_table' = Commit(job_table, r, job)
     /\ Set(r, [pc |-> "done", sync_job |-> job, outcome |-> "returned",
                saved |-> db])
  /\ config' = IF config.exists
               THEN [config EXCEPT !.last_sync_at = clock + 1,
                                   !.sync_status = "active", !.error_message = NULL]
               ELSE config
  /\ UNCHANGED << remote, db, seq, failures_left, changes_left >>

\* except IntegrationError / except Exception of the task: mark the job.
FailedJob(job, msg, now) ==
  [job EXCEPT !.status = "failed", !.completed_at = now, !.error_message = msg,
              !.failed_items = 1]

\* f"Integration error: {e.message}" / f"Unexpected error: {str(e)}"
ErrorMessage(exc, msg) ==
  IF exc = "IntegrationError" THEN "Integration error: " \o msg
  ELSE "Unexpected error: " \o msg

\* The except arm up to and including `await db.commit()`.
TaskFail(r) ==
  /\ task[r].pc = "handler"
  /\ task[r].tx = "ok"
  /\ clock' = clock + 1
  /\ LET job == FailedJob(task[r].sync_job,
                          ErrorMessage(task[r].exc, task[r].error), clock + 1) IN
     /\ job_table' = Commit(job_table, r, job)
     /\ Set(r, [pc |-> "propagate", sync_job |-> job, saved |-> db])
  /\ UNCHANGED << remote, config, db, seq, failures_left, changes_left >>

\* The except arm in an aborted transaction: the UPDATE of the job row
\* that db.commit() flushes is rejected, the exception leaves the except
\* arm, get_db_context rolls back and re-raises.  The job row stays as it
\* was committed.
TaskFailCommitRaises(r) ==
  /\ task[r].pc = "handler"
  /\ task[r].tx = "aborted"
  /\ db' = task[r].saved
  /\ Set(r, [pc |-> "done", outcome |-> "raised", tx |-> "ok",
             exc |-> "Exception", error |-> "transaction is aborted",
             result |-> [error |-> "transaction is aborted"]])
  /\ UNCHANGED << remote, config, seq, job_table, clock, failures_left,
                  changes_left >>

\* The last statement of the except arm: `raise` in the full-sync task,
\* `return {"error": ...}` in the incremental task.
Propagate(r) ==
  /\ task[r].pc = "propagate"
  /\ Set(r, [pc |-> "done",
             outcome |-> IF task[r].kind = "full" THEN "raised" ELSE "returned",
             result |-> [error |-> ErrorMessage(task[r].exc, task[r].error)]])
  /\ UNCHANGED << remote, config, db, seq, job_table, clock, failures_left,
                  changes_left >>

\* ---------------------------------------------------------- environment
\* Between runs the ERP re-points a product to another folder (or to none,
\* or to a folder the ERP does not list).
FolderRef(v) == IF v = NULL THEN NoRef ELSE Ref("productfolder", v)

RemoteChange(i, v) ==
  /\ Quiet
  /\ changes_left > 0
  /\ i \in 1..Len(remote.product)
  /\ remote.product[i].productFolder # FolderRef(v)
  /\ remote' = [remote EXCEPT !.product[i] =
                  [productFolder |-> FolderRef(v), updated |-> clock] @@ @]
  /\ changes_left' = changes_left - 1
  /\ UNCHANGED << config, db, seq, job_table, clock, task, failures_left >>

\* Between runs the ERP archives a currency.
Archivable == {"currency"}

RemoteArchive(t, i) ==
  /\ Quiet
  /\ changes_left > 0
  /\ i \in 1..Len(remote[t])
  /\ ~Get(remote[t][i], "archived", FALSE)
  /\ remote' = [remote EXCEPT ![t][i] = [archived |-> TRUE, updated |-> clock] @@ @]
  /\ changes_left' = changes_left - 1
  /\ UNCHANGED << config, db, seq, job_table, clock, task, failures_left >>

\* At any time an operator disables the integration, removes its row or
\* clears its credentials.
ConfigVariants ==
  { [ConfigInit EXCEPT !.exists = FALSE],
    [ConfigInit EXCEPT !.is_enabled = FALSE],
    [ConfigInit EXCEPT !.credentials = FALSE] }

ConfigChange(c) ==
  /\ changes_left > 0
  /\ config.exists /\ config.is_enabled /\ config.credentials
  /\ config' = [c EXCEPT !.sync_status = config.sync_status,
                         !.last_sync_at = config.last_sync_at,
                         !.error_message = config.error_message]
  /\ changes_left' = changes_left - 1
  /\ UNCHANGED << remote, db, seq, job_table, clock, task, failures_left >>

\* ------------------------------------------------------- specifications
Services == {"fixed", "plain"}
Kinds == {"full", "incremental"}

Steps(r) ==
  \/ CreateClient(r)
  \/ TestConnection(r)
  \/ EnterSync(r)
  \/ Fetch(r)
  \/ UpsertRecord(r)
  \/ FinishEntity(r)
  \/ Resolve(r)
  \/ Return(r)
  \/ TaskComplete(r)

\* Runs dispatched one after the other, with failing requests, writes and
\* commits, edits of the remote dataset between runs and edits of the
\* configuration at any time.
Next ==
  \/ \E r \in Runs, s \in Services, k \in Kinds : StartAlone(r, s, k)
  \/ \E r \in Runs : Steps(r)
  \/ \E r \in Runs : SkipDisabled(r)
  \/ \E r \in Runs : CreateClientRaises(r)
  \/ \E r \in Runs : TestConnectionFails(r)
  \/ \E r \in Runs, n \in 1..(LongestCollection + 1) : FetchFails(r, n)
  \/ \E r \in Runs, how \in WriteFailures : WriteFails(r, how)
  \/ \E r \in Runs : CommitFails(r)
  \/ \E r \in Runs : TaskFail(r)
  \/ \E r \in Runs : TaskFailCommitRaises(r)
  \/ \E r \in Runs : Propagate(r)
  \/ \E i \in 1..Len(RemoteInit.product), v \in FolderChoices : RemoteChange(i, v)
  \/ \E t \in Archivable, i \in 1..LongestCollection : RemoteArchive(t, i)
  \/ \E c \in ConfigVariants : ConfigChange(c)

Spec == Init /\ [][Next]_vars

\* Two runs dispatched at any time, overlapping freely, over a remote
\* dataset and a configuration that stay as they are and a remote that
\* answers.
Overlapping == {1, 2}

NextConcurrent ==
  \/ \E r \in Overlapping, s \in Services, k \in Kinds : StartTask(r, s, k)
  \/ \E r \in Overlapping : Steps(r)

ConcurrentSpec == Init /\ [][NextConcurrent]_vars

\* The client alone: get_paginated called with any limit, with and without
\* an expand parameter, on a collection of any size up to MaxRows, any one
\* of its requests failing.
Catalogue(n) == [i \in 1..n |-> [id |-> "P" \o ToString(i), name |-> "item"]]

ClientInit ==
  /\ \E n \in 0..MaxRows : remote = [RemoteInit EXCEPT !.product = Catalogue(n)]
  /\ config = ConfigInit
  /\ db = [t \in Tables |-> {}]
  /\ seq = [t \in Tables |-> 0]
  /\ job_table = [r \in Runs |-> NoJob]
  /\ clock = 0
  /\ task = [r \in Runs |-> IdleTask]
  /\ failures_left = MaxFailures
  /\ changes_left = MaxChanges

\* MoySkladClient(username, password, token) with the MOYSKLAD_* settings
\* as fallbacks.
ArgumentValues == {NULL, "", "arg"}
SettingValues == {NULL, "env"}

NewClient(r, args, settings) ==
  /\ task[r].pc = "idle"
  /\ task[r].client.method = "none"
  /\ LET username == Or(args.username, settings.username)
         password == Or(args.password, settings.password)
         token == Or(args.token, settings.token)
         auth == Authenticate(username, password, token)
     IN Set(r, [client |-> auth @@ [username |-> username, password |-> password,
                                    token |-> token],
                exc |-> IF auth.method = "raised" THEN "IntegrationError"
                        ELSE "none"])
  /\ UNCHANGED << remote, config, db, seq, job_table, clock, failures_left,
                  changes_left >>

Constructed(r) == task[r].client.method \in {"bearer", "basic"}

\* await client.test_connection(), the remote answering `answer`.
CallTestConnection(r, answer) ==
  /\ task[r].pc = "idle"
  /\ Constructed(r)
  /\ task[r].probes = << >>
  /\ Set(r, [probes |-> << answer >>, connection |-> test_connection(answer)])
  /\ UNCHANGED << remote, config, db, seq, job_table, clock, failures_left,
                  changes_left >>

\* await client.get_paginated("entity/product", params, limit)
CallGetPaginated(r, expand, limit, failAt) ==
  /\ task[r].pc = "idle"
  /\ Constructed(r)
  /\ LET rows == remote.product
         lim == EffectiveLimit(expand, limit)
         loaded == PaginateFrom(rows, lim, failAt, 0, 1, <<>>)
     IN /\ failAt <= Requests(rows, lim)
        /\ Set(r, [call |-> [expand |-> expand, limit |-> limit], limit |-> lim,
                   buffer |-> loaded.all_items, requests |-> loaded.requests,
                   fetch_failed |-> loaded.failed, requested |-> TRUE,
                   offsets |-> loaded.offsets, exc |-> "none"])
  /\ UNCHANGED << remote, config, db, seq, job_table, clock, failures_left,
                  changes_left >>

NextClient ==
  \/ \E args \in [username : ArgumentValues, password : ArgumentValues,
                   token : ArgumentValues],
        settings \in [username : SettingValues, password : SettingValues,
                       token : SettingValues] :
       NewClient(1, args, settings)
  \/ \E answer \in Answers : CallTestConnection(1, answer)
  \/ \E expand \in BOOLEAN, limit \in 1..(PageLimit + 1), failAt \in 0..(MaxRows + 1) :
       CallGetPaginated(1, expand, limit, failAt)

ClientSpec == ClientInit /\ [][NextClient]_vars

\* The mapper alone: each mapper function, and the value extraction of
\* sync_products, applied to a record that is well formed or has one field
\* missing or of another shape.
WellFormed ==
  [meta           |-> JDict([href |-> JStr(<< "entity", "product", "P1" >>)]),
   name           |-> JStr(<< "nut" >>),
   salePrices     |-> JList(<< JDict([value |-> JNum(12500)]) >>),
   buyPrice       |-> JDict([value |-> JNum(12500)]),
   minPrice       |-> JDict([value |-> JNum(0)]),
   weight         |-> JNum(1500),
   volume         |-> JNum(2000000),
   contactpersons |-> JList(<< JDict([email |-> JStr(<< "a@b" >>)]) >>),
   legalAddress   |-> JDict([addInfo |-> JStr(<< "street" >>)]),
   actualAddress  |-> JDict([addInfo |-> JStr(<< "street" >>)]),
   address        |-> JDict([addInfo |-> JStr(<< "street" >>)]),
   stock          |-> JNum(3000),
   inTransit      |-> JNum(0),
   reserve        |-> JNum(500),
   quantity       |-> JNum(2500)]

Shapes ==
  { JNull, JNum(0), JNum(12500), JList(<< >>), JList(<< JNull >>),
    JList(<< JDict(EmptyDict) >>), JList(<< JDict([value |-> JNum(0)]) >>),
    JDict(EmptyDict), JDict([value |-> JNull]), JDict([value |-> JNum(0)]),
    JDict([value |-> JNum(12500)]) }

Without(d, key) == [k \in DOMAIN d \ {key} |-> d[k]]

Records ==
  {WellFormed}
  \cup { Without(WellFormed, key) : key \in DOMAIN WellFormed }
  \cup { [WellFormed EXCEPT ![key] = v] : key \in DOMAIN WellFormed, v \in Shapes }

MapperInit ==
  /\ \E data \in Records :
       task = [r \in Runs |-> [IdleTask EXCEPT !.buffer = << data >>]]
  /\ remote = RemoteInit
  /\ config = ConfigInit
  /\ db = [t \in Tables |-> {}]
  /\ seq = [t \in Tables |-> 0]
  /\ job_table = [r \in Runs |-> NoJob]
  /\ clock = 0
  /\ failures_left = MaxFailures
  /\ changes_left = MaxChanges

\* MoySkladMapper.<fn>(data)
CallMapper(r, fn) ==
  /\ task[r].pc = "idle"
  /\ Set(r, [fn |-> fn, mapped |-> MapperCall(fn, task[r].buffer[1], clock)])
  /\ UNCHANGED << remote, config, db, seq, job_table, clock, failures_left,
                  changes_left >>

\* The value extraction of one iteration of sync_products.
SyncProductValues(r) ==
  /\ task[r].pc = "idle"
  /\ Set(r, [fn |-> "sync_products",
             mapped |-> FixedProductValues(task[r].buffer[1])])
  /\ UNCHANGED << remote, config, db, seq, job_table, clock, failures_left,
                  changes_left >>

\* Reference pointers as the remote sends them and as the test of ID
\* extraction passes them: an object with meta.href, a bare href, null, an
\* empty object, and objects whose meta or href is absent, null or of
\* another shape.
Href == JStr(<< "entity", "productfolder", "456" >>)

Pointers ==
  { JDict([meta |-> JDict([href |-> Href])]), Href, JNull, JDict(EmptyDict),
    JStr(<< >>), JDict([name |-> JStr(<< "nut" >>)]),
    JDict([meta |-> JDict(EmptyDict)]), JDict([meta |-> JNull]),
    JDict([meta |-> JDict([href |-> JNull])]),
    JDict([meta |-> JDict([href |-> JStr(<< >>)])]) }

\* sync_service.extract_id_from_meta_or_href(obj)
CallExtractId(r, obj) ==
  /\ task[r].pc = "idle"
  /\ Set(r, [fn |-> "extract_id_from_meta_or_href", pointer |-> obj,
             mapped |-> ExtractIdFromMetaOrHref(obj)])
  /\ UNCHANGED << remote, config, db, seq, job_table, clock, failures_left,
                  changes_left >>

NextMapper ==
  \/ \E fn \in MapperFunctions : CallMapper(1, fn)
  \/ SyncProductValues(1)
  \/ \E obj \in Pointers : CallExtractId(1, obj)

MapperSpec == MapperInit /\ [][NextMapper]_vars

\* One service instance on which a caller runs several syncs, over a
\* remote dataset and a configuration that stay as they are and a remote
\* and a database that answer.
\* sync_service = FixedMoySkladSyncService(db) / MoySkladSyncService(db):
\* __init__ sets self.results.
NewService(r, s) ==
  /\ task[r].pc = "idle"
  /\ Set(r, [pc |-> "ready", svc |-> s, results |-> ResultsInit(s)])
  /\ UNCHANGED << remote, config, db, seq, job_table, clock, failures_left,
                  changes_left >>

\* await sync_service.full_sync() / incremental_sync() up to
\* start_time = datetime.utcnow(); self.results is what the instance holds.
CallSync(r, k) ==
  /\ task[r].pc \in {"ready", "task_ok"}
  /\ task[r].calls < MaxCalls
  /\ clock' = clock + 1
  /\ Set(r, [pc |-> "create_client", kind |-> k, calls |-> task[r].calls + 1,
             sync_job |-> [NoJob EXCEPT !.started_at = clock + 1]])
  /\ UNCHANGED << remote, config, db, seq, job_table, failures_left,
                  changes_left >>

NextReuse ==
  \/ \E s \in Services : NewService(1, s)
  \/ \E k \in Kinds : CallSync(1, k)
  \/ CreateClient(1)
  \/ TestConnection(1)
  \/ Fetch(1)
  \/ UpsertRecord(1)
  \/ FinishEntity(1)
  \/ Resolve(1)
  \/ Return(1)

ReuseSpec == Init /\ [][NextReuse]_vars

\* ================================================================ claims
ExternalIds(rows) == { row.external_id : row \in rows }

\* The external identifiers of the remote records that carry one.
RemoteIds(t) == { ExternalIdOf(t, remote[t][i]) : i \in 1..Len(remote[t]) } \ {NULL}

\* Run r has just finished a resolver pass (no statement of it is pending
\* and the run has written nothing since).
PassDone(r) ==
  /\ task[r].pc \in {"return", "task_ok"}
  /\ InvokesResolver(task[r].svc, task[r].kind)

\* Run r executes a resolver statement in this step.
ResolverStep(r) ==
  task[r].pc = "resolve" /\ task[r].tx = "ok" /\ task'[r] # task[r]

\* Run r executes the upsert statement of a record in this step.
UpsertStep(r) ==
  /\ task[r].pc = "upsert" /\ task[r].pos <= Len(task[r].buffer)
  /\ task[r].tx = "ok" /\ task'[r].wrote
  /\ task'[r].pos = task[r].pos + 1
  /\ task'[r].pc = "upsert"

StatementOf(r) == ForeignKeys(task[r].svc)[task[r].fk]

OnePerExternalId ==
  \A t \in Tables : \A a, b \in db[t] : a.external_id = b.external_id => a = b

\* C1: every table keeps at most one row per external identifier, and in
\* every step that executes an upsert statement every existing row keeps
\* its id and external identifier and the row count grows exactly by the
\* number of external identifiers that were not stored before (an upsert of
\* a stored identifier adds no row).
C1_UpsertOneRowPerExternalId ==
  [][ /\ OnePerExternalId'
      /\ (\E r \in Runs : UpsertStep(r)) => \A t \in Tables :
           /\ \A row \in db[t] : \E row2 \in db'[t] :
                row2.id = row.id /\ row2.external_id = row.external_id
           /\ Cardinality(db'[t]) =
                Cardinality(db[t]) + Cardinality(ExternalIds(db'[t]) \ ExternalIds(db[t]))
    ]_vars

\* A row written by a second upsert: synced later than it was created.
C1_Witness ==
  \E t \in Tables : \E row \in db[t] : row.last_sync_at > row.created_at

\* C2: when all of the overlapping runs have finished, every table a run
\* synced holds exactly one row for each remote record that carries an
\* identifier and no other row.
C2_ConcurrentRunsOneRowEach ==
  (\A r \in Overlapping : task[r].pc = "done") =>
    \A r \in Overlapping : \A t \in Range(Order(task[r].svc, task[r].kind)) :
      /\ \A x \in RemoteIds(t) :
           Cardinality({ row \in db[t] : row.external_id = x }) = 1
      /\ Cardinality(db[t]) = Cardinality(RemoteIds(t))

\* A full and an incremental run of the same service that overlapped in time.
C2_Witness ==
  /\ \A r \in Overlapping : task[r].pc = "done"
  /\ \E r, q \in Overlapping :
       /\ task[r].svc = "fixed" /\ task[q].svc = "fixed"
       /\ task[r].kind = "full" /\ task[q].kind = "incremental"
       /\ job_table[r].started_at < job_table[q].completed_at
       /\ job_table[q].started_at < job_table[r].completed_at

\* Number of remote records with an identifier behind the entity types run
\* r syncs.
RecordsOf(r) ==
  LET types == Range(Order(task[r].svc, task[r].kind)) IN
  SumOver([t \in types |-> [n |-> Cardinality(RemoteIds(t))]], types, "n")

\* C3: a full sync that starts after a full sync of the same service has
\* completed, over the unchanged remote dataset, counts no record as created
\* and every remote record as updated.
C3_SecondFullSyncCountsUpdates ==
  \A r, q \in Runs :
    ( /\ task[r].pc = "done" /\ task[q].pc = "done"
      /\ task[r].kind = "full" /\ task[q].kind = "full"
      /\ task[r].svc = task[q].svc
      /\ job_table[q].completed_at < job_table[r].started_at )
    => /\ Total(task[r].results, "created") = 0
       /\ Total(task[r].results, "updated") = RecordsOf(r)

\* Every resolved field of the triples of service s is null or the id of
\* the row whose external_id is the pending field.
ResolvedConsistent(s) ==
  \A i \in 1..Len(ForeignKeys(s)) :
    LET fk == ForeignKeys(s)[i] IN
    \A row \in db[fk.dep] :
      \/ row[fk.resolved] = NONE
      \/ \E p \in db[fk.ref] :
           p.id = row[fk.resolved] /\ p.external_id = row[fk.pending]

\* C4: whenever a resolver pass has finished, every resolved reference
\* field is null or the id of the row named by the pending reference field.
C4_ResolvedMatchesPending ==
  \A r \in Runs : PassDone(r) => ResolvedConsistent(task[r].svc)

\* C5: a resolver statement sets the resolved field of every row in which
\* it was null and whose pending field names an existing referenced row to
\* that row's id, and when the pass has finished no row of its triples
\* that names an existing referenced row is left unresolved.
C5_ResolverResolves ==
  /\ [][ \A r \in Runs : ResolverStep(r) =>
           LET fk == StatementOf(r) IN
           \A row \in db[fk.dep] : \A p \in db[fk.ref] :
             (row[fk.resolved] = NONE /\ row[fk.pending] = p.external_id)
             => \E row2 \in db'[fk.dep] :
                  row2.id = row.id /\ row2[fk.resolved] = p.id ]_vars
  /\ [](\A r \in Runs : PassDone(r) =>
          \A i \in 1..Len(ForeignKeys(task[r].svc)) :
            LET fk == ForeignKeys(task[r].svc)[i] IN
            \A row \in db[fk.dep] :
              (\E p \in db[fk.ref] : p.external_id = row[fk.pending])
              => row[fk.resolved] # NONE)

\* A finished pass that linked a stock row to its product.
C5_Witness ==
  \E r \in Runs :
    /\ PassDone(r)
    /\ \E row \in db["stock"] : \E p \in db["product"] :
         row.product_external_id = p.external_id /\ row.product_id = p.id

\* C6: a resolver statement leaves null the resolved field of every row in
\* which it was null and whose pending field is null or names no referenced
\* row, and the statement ends without an error: the run goes on to the
\* next statement or to the end of the pass.
C6_UnmatchedStaysNull ==
  [][ \A r \in Runs : ResolverStep(r) =>
        LET fk == StatementOf(r) IN
        /\ task'[r].pc \in {"resolve", "return"}
        /\ task'[r].error = NULL
        /\ \A row \in db[fk.dep] :
             (row[fk.resolved] = NONE /\ row[fk.pending] \notin ExternalIds(db[fk.ref]))
             => \E row2 \in db'[fk.dep] :
                  row2.id = row.id /\ row2[fk.resolved] = NONE ]_vars

\* A finished pass, folders stored, with a product whose pending field
\* names a folder no row has and whose folder_id is null.
C6_Witness ==
  \E r \in Runs :
    /\ PassDone(r) /\ task[r].svc = "fixed"
    /\ db["product_folder"] # {}
    /\ \E row \in db["product"] :
         /\ row.folder_external_id = "F9"
         /\ row.folder_id = NONE

\* C7: when a pass has finished, a second pass changes no row, and no
\* resolver statement changes a resolved field that is not null.
C7_ResolverIdempotent ==
  /\ [](\A r \in Runs : PassDone(r) => ResolvePass(db, task[r].svc) = db)
  /\ [][ \A r \in Runs : ResolverStep(r) =>
           LET fk == StatementOf(r) IN
           \A row \in db[fk.dep] :
             row[fk.resolved] # NONE => row \in db'[fk.dep] ]_vars

\* A finished pass that met a product already linked to a folder other
\* than the one its pending field names.
C7_Witness ==
  \E r \in Runs :
    /\ PassDone(r)
    /\ \E row \in db["product"] : \E p \in db["product_folder"] :
         /\ p.external_id = row.folder_external_id
         /\ row.folder_id # NONE
         /\ row.folder_id # p.id

\* C8: when full_sync returns successfully, every dependent row whose
\* pending field names a synced row has its resolved field equal to that
\* row's id.
C8_FullSyncResolves ==
  \A r \in Runs :
    (task[r].pc = "task_ok" /\ task[r].kind = "full") =>
      \A i \in 1..Len(ForeignKeys(task[r].svc)) :
        LET fk == ForeignKeys(task[r].svc)[i] IN
        \A row \in db[fk.dep] : \A p \in db[fk.ref] :
          p.external_id = row[fk.pending] => row[fk.resolved] = p.id

\* C9: once a remote request of a full sync has failed, the run is in its
\* error path: it fetches and writes nothing more, and it ends raised with
\* the job failed, never completed.
C9_FullSyncAbortsOnRemoteFailure ==
  \A r \in Runs :
    (task[r].kind = "full" /\ task[r].request_failed) =>
      /\ task[r].pc \in {"handler", "propagate", "done"}
      /\ task[r].pc = "done" =>
           (task[r].outcome = "raised" /\ job_table[r].status = "failed")

\* C10: the full-sync task raises to the dispatcher only from a state in
\* which the committed job row already has status failed and carries the
\* error message.
C10_FailedCommittedBeforeRaise ==
  [][ \A r \in Runs :
        (task[r].kind = "full" /\ task[r].outcome # "raised"
         /\ task'[r].outcome = "raised") =>
          /\ job_table[r].status = "failed"
          /\ job_table[r].error_message = ErrorMessage(task[r].exc, task[r].error)
          /\ job_table[r].completed_at # NONE ]_vars

\* C11: when the sync of an entity type has raised during incremental_sync,
\* incremental_sync raises nothing to the task, and when it has returned
\* its summary carries an error count for that entity type.
C11_IncrementalReturnsSummary ==
  \A r \in Runs :
    (task[r].kind = "incremental" /\ task[r].raised_in # NULL) =>
      /\ task[r].exc = "none"
      /\ task[r].pc = "done" =>
           /\ Has(task[r].result, "details")
           /\ task[r].result.details[task[r].raised_in].errors > 0

\* C12: when an incremental run has ended, every entity type that follows
\* in its sequence one whose sync failed has been fetched and its records
\* upserted.
C12_IncrementalGoesOn ==
  \A r \in Runs :
    (task[r].kind = "incremental" /\ task[r].pc = "done") =>
      LET order == Order(task[r].svc, "incremental") IN
      \A i, j \in 1..Len(order) :
        (i < j /\ order[i] \in task[r].failed_in) => order[j] \in task[r].passed

\* C13: when a batch in which the write of one record failed ends, that
\* batch counts one error for it, every other record of it that carries an
\* identifier is counted as created or updated, and every such record
\* after the failed one has its row.
C13_RecordFailureKeepsBatch ==
  [][ \A r \in Runs :
        (task[r].pc = "upsert" /\ task'[r].pc # "upsert"
         /\ task'[r].write_failed # 0) =>
          LET t == EntityOf(r)
              buf == task[r].buffer
              res == task'[r].results[t]
              unread == { i \in DOMAIN buf : ExtractionRaises(t, buf[i]) }
              identified == { i \in DOMAIN buf : ExternalIdOf(t, buf[i]) # NULL }
          IN /\ Get(res, "errors", 0) = 1 + Cardinality(unread)
             /\ res.created + res.updated = Cardinality(identified) - 1
             /\ \A i \in identified :
                  i > task'[r].write_failed =>
                    ExternalIdOf(t, buf[i]) \in ExternalIds(db'[t]) ]_vars

\* C14: a call of get_paginated in which no request fails issues
\* floor(N / limit) + 1 requests for a collection of N rows and returns the
\* N rows in order; for N = limit that is two requests, the second one
\* answered by an empty page.
C14_PaginationStops ==
  \A r \in Runs :
    (task[r].requested /\ ~task[r].fetch_failed /\ task[r].pc = "idle") =>
      LET N == Len(remote.product)
          L == task[r].limit
      IN /\ task[r].requests = (N \div L) + 1
         /\ task[r].buffer = remote.product
         /\ N = L => task[r].requests = 2

\* A call on a collection of exactly `limit` rows, more than one.
C14_Witness ==
  \E r \in Runs :
    /\ task[r].requested /\ ~task[r].fetch_failed
    /\ task[r].limit > 1
    /\ Len(remote.product) = task[r].limit
    /\ task[r].requests = 2
    /\ Len(task[r].buffer) = task[r].limit

\* C15: a call of get_paginated in which a request failed ends with the
\* error raised to the caller, who receives no rows.
C15_PageErrorSurfaces ==
  \A r \in Runs :
    (task[r].requested /\ task[r].fetch_failed /\ task[r].pc = "idle") =>
      /\ task[r].exc # "none"
      /\ task[r].buffer = <<>>

Terminal == {"completed", "failed", "skipped"}

\* C16: no step changes a committed job row whose status is completed,
\* failed or skipped.
C16_TerminalJobImmutable ==
  [][ \A r \in Runs :
        job_table[r].status \in Terminal => job_table'[r] = job_table[r] ]_vars

\* A later run has committed its own job row after an earlier one ended.
C16_Witness ==
  \E r, q \in Runs :
    /\ job_table[r].status \in Terminal /\ job_table[q].status \in Terminal
    /\ job_table[r].completed_at < job_table[q].started_at

\* C17: a job row has status skipped only while the configuration row
\* exists and is disabled.
C17_SkippedOnlyWhenDisabled ==
  \A r \in Runs :
    job_table[r].status = "skipped" => (config.exists /\ ~config.is_enabled)

\* C18: a run that has issued a remote request or written an entity row
\* has its job row committed, with status running until the run ends, and
\* a run that has returned or raised has a job row with a terminal status.
C18_JobBracketsRun ==
  \A r \in Runs :
    /\ (task[r].requested \/ task[r].wrote) => job_table[r].status # "absent"
    /\ task[r].pc \in {"create_client", "test_connection", "fetch", "upsert",
                       "resolve", "return"} => job_table[r].status = "running"
    /\ task[r].pc = "done" => job_table[r].status \in Terminal

\* C19: full_sync and incremental_sync entered while the configuration row
\* is missing or disabled raise IntegrationError at once: the run has
\* issued no remote request and written no entity row.
C19_ConfigIsPrecondition ==
  [][ \A r \in Runs :
        (task[r].pc = "create_client" /\ ~(config.exists /\ config.is_enabled)
         /\ task'[r] # task[r]) =>
          /\ task'[r].pc = "handler"
          /\ task'[r].exc = "IntegrationError"
          /\ ~task'[r].requested /\ ~task'[r].wrote
          /\ db' = db ]_vars

\* incremental_sync raised for a configuration that was disabled or removed
\* after the task had tested it.
C19_Witness ==
  \E r \in Runs :
    /\ task[r].kind = "incremental" /\ task[r].pc = "handler"
    /\ task[r].exc = "IntegrationError"
    /\ ~(config.exists /\ config.is_enabled)
    /\ ~task[r].requested /\ ~task[r].wrote

\* The entity types whose sync method has ended in run r.
Ended(r) == task[r].passed \cup task[r].failed_in

RecordOf(r) == task[r].buffer[task[r].pos]

\* C21: an upsert statement that meets a stored row with the record's
\* external identifier leaves that row's id and created_at as they were.
C21_UpdateKeepsIdAndCreation ==
  [][ \A r \in Runs : UpsertStep(r) =>
        LET t == EntityOf(r)
            ext == ExternalIdOf(t, RecordOf(r))
        IN \A row \in db[t] :
             row.external_id = ext =>
               \E row2 \in db'[t] :
                 /\ row2.external_id = ext
                 /\ row2.id = row.id
                 /\ row2.created_at = row.created_at ]_vars

\* A row the update arm has rewritten after the run that created it.
C21_Witness ==
  \E t \in FixedTables : \E row \in db[t] :
    row.updated_at > row.created_at /\ row.last_sync_at = row.updated_at

\* The stored row of the record an upsert step of run r has just written
\* carries the record's value in every mapped column.
Reflected(r) ==
  LET t == EntityOf(r)
      d == RecordOf(r)
  IN \A row \in db'[t] :
       row.external_id = ExternalIdOf(t, d) =>
         \A c \in DOMAIN MappedFields(t, d) : row[c] = MappedFields(t, d)[c]

\* C22: after every upsert statement, of any entity type and on either
\* arm, every mapped column of the stored row equals the value mapped from
\* the remote record.
C22_UpdateWritesEveryMappedField ==
  [][ \A r \in Runs : UpsertStep(r) => Reflected(r) ]_vars

\* The raw minor-unit number behind a price column in the record: the
\* value of the first sale price, of buyPrice or of minPrice (an empty
\* tuple when the record carries no such number).
PriceKey(col) ==
  CASE col = "sale_price" -> "salePrices"
    [] col = "buy_price"  -> "buyPrice"
    [] OTHER              -> "minPrice"

RawPrice(data, col) ==
  LET v == Get(data, PriceKey(col), JNull)
      obj == IF col = "sale_price" /\ v.type = "list" /\ Len(v.elems) > 0
             THEN v.elems[1] ELSE v
  IN IF col = "sale_price" /\ v.type # "list" THEN << >>
     ELSE IF obj.type = "dict" /\ Has(obj.items, "value") /\ obj.items.value.type = "number"
     THEN << obj.items.value.n >>
     ELSE << >>

PriceColumns == {"sale_price", "buy_price", "min_price"}

QuantityKeys == [stock |-> "stock", in_transit |-> "inTransit",
                 reserve |-> "reserve", available |-> "quantity"]

\* C23: a price column holds the raw minor-unit value divided by 100
\* (12500 gives 125, 0 gives 0), a price field that is missing from the
\* record gives null in sale_price, buy_price and min_price, a missing
\* quantity gives 0, and no record makes the mapping raise a division by
\* zero.
C23_PriceMapping ==
  \A r \in Runs :
    LET data == task[r].buffer[1]
        m == task[r].mapped
    IN /\ m.exc # "ZeroDivisionError"
       /\ (task[r].fn \in {"map_product", "map_service", "sync_products"}
           /\ m.exc = "none") =>
            \A col \in PriceColumns :
              /\ ~Has(data, PriceKey(col)) => m.v[col] = NoNumber
              /\ RawPrice(data, col) = << 12500 >> => m.v[col] = << 125, 1 >>
              /\ RawPrice(data, col) = << 0 >> => m.v[col] = << 0, 1 >>
       /\ (task[r].fn = "map_stock" /\ m.exc = "none") =>
            \A col \in DOMAIN QuantityKeys :
              ~Has(data, QuantityKeys[col]) => m.v[col] = << 0, 1 >>

\* C24: a call of a mapper function on a record that has a field missing,
\* null, empty or of another shape raises nothing and returns every column
\* of the mapping.
C24_MapperNeverRaises ==
  \A r \in Runs :
    task[r].fn \in MapperFunctions =>
      /\ task[r].mapped.exc = "none"
      /\ DOMAIN task[r].mapped.v = Range(ColumnsOf(task[r].fn))

\* C25: the row an upsert statement of a run has inserted or updated has
\* sync_status "synced" and the time of the statement in last_sync_at.
C25_SyncedRowsStamped ==
  [][ \A r \in Runs : UpsertStep(r) =>
        \A row \in db'[EntityOf(r)] :
          row.external_id = ExternalIdOf(EntityOf(r), RecordOf(r)) =>
            /\ row.sync_status = "synced"
            /\ row.last_sync_at = clock ]_vars

\* The resolved reference columns of table t.
ResolvedColumns(t) ==
  IF t \in {"product", "service", "stock", "employee", "contract"}
  THEN DOMAIN ResolvedDefaults(t) ELSE {}

\* C26: an upsert statement leaves every resolved reference column of
\* every stored row as it was and inserts a row with all of them null, and
\* a resolved reference column takes a new value only in a step of the
\* resolver on that table.
C26_OnlyResolverWritesResolved ==
  [][ /\ \A r \in Runs : UpsertStep(r) =>
           LET t == EntityOf(r) IN
           /\ \A row \in db[t] : \E row2 \in db'[t] :
                row2.id = row.id /\ \A c \in ResolvedColumns(t) : row2[c] = row[c]
           /\ \A row2 \in db'[t] :
                (\A row \in db[t] : row.id # row2.id) =>
                  \A c \in ResolvedColumns(t) : row2[c] = NONE
      /\ \A t \in Tables : \A row \in db[t] : \A row2 \in db'[t] :
           (row2.id = row.id
            /\ \E c \in ResolvedColumns(t) : row2[c] # row[c] /\ row2[c] # NONE)
           => \E r \in Runs : ResolverStep(r) /\ StatementOf(r).dep = t
    ]_vars

\* The update arm has just rewritten a product row that the resolver of an
\* earlier run had linked to its folder.
C26_Witness ==
  \E r \in Runs :
    /\ task[r].pc = "upsert" /\ EntityOf(r) = "product" /\ task[r].pos > 1
    /\ \E row \in db["product"] :
         /\ row.external_id = task[r].buffer[task[r].pos - 1].id
         /\ row.last_sync_at > row.created_at
         /\ row.folder_id # NONE

\* C27: every record an incremental run upserts was updated in the remote
\* no earlier than the lookback window before the run's start.
C27_IncrementalFetchesWindow ==
  [][ \A r \in Runs :
        (UpsertStep(r) /\ task[r].kind = "incremental") =>
          Get(RecordOf(r), "updated", 0) >= task[r].sync_job.started_at - Lookback
    ]_vars

\* C28: a client constructed with a token sends it as bearer credentials
\* whatever username and password it has; one without a token and with
\* both a username and a password sends them as basic credentials; with
\* neither, the construction raises IntegrationError and the client sends
\* no request.
C28_ClientAuthentication ==
  \A r \in Runs :
    LET c == task[r].client IN
    c.method # "none" =>
      /\ Present(c.token) =>
           c.method = "bearer" /\ c.headers.Authorization = << "Bearer", c.token >>
      /\ (~Present(c.token) /\ Present(c.username) /\ Present(c.password)) =>
           /\ c.method = "basic"
           /\ c.headers.Authorization = << "Basic", c.username, ":", c.password >>
      /\ (~Present(c.token) /\ ~(Present(c.username) /\ Present(c.password))) =>
           /\ c.method = "raised" /\ task[r].exc = "IntegrationError"
           /\ ~task[r].requested /\ task[r].probes = << >>

\* A client that has a token from the settings and a username/password pair
\* from its arguments, and has sent requests with the token.
C28_Witness ==
  \E r \in Runs :
    /\ task[r].client.token = "env"
    /\ task[r].client.username = "arg" /\ task[r].client.password = "arg"
    /\ task[r].client.method = "bearer"
    /\ task[r].requested

\* The request of a probe failed: no answer, an error status, or a body
\* that is no JSON object.
RequestFailed(answer) ==
  \/ answer.kind = "transport"
  \/ answer.status >= 400
  \/ answer.body.type \in {"invalid", "null", "list"}

\* C29: a call of test_connection sends one request, raises nothing and
\* returns a result with a boolean success, which is false when the
\* request failed.
C29_TestConnectionNeverRaises ==
  \A r \in Runs :
    task[r].connection # Throw("not called") =>
      /\ Len(task[r].probes) = 1
      /\ task[r].connection.exc = "none"
      /\ task[r].connection.v.success \in BOOLEAN
      /\ RequestFailed(task[r].probes[1]) => ~task[r].connection.v.success

\* A probe answered with a body that is no JSON object: the request's
\* exception is not an IntegrationError, and the result says failure.
C29_Witness ==
  \E r \in Runs :
    /\ Len(task[r].probes) = 1
    /\ task[r].probes[1].status = 200 /\ task[r].probes[1].body.type = "list"
    /\ task[r].connection.exc = "none"
    /\ ~task[r].connection.v.success

\* C30: a call of get_paginated with an expand parameter sends every one
\* of its page requests with a limit of at most the cap, and ends on the
\* page that is shorter than that capped limit: when no request failed it
\* has loaded the whole collection, page by page of the capped size.
C30_ExpandCapsLimit ==
  \A r \in Runs :
    (task[r].requested /\ task[r].call.expand) =>
      /\ task[r].limit <= ExpandLimit
      /\ task[r].limit = Min(task[r].call.limit, ExpandLimit)
      /\ ~task[r].fetch_failed =>
           /\ task[r].buffer = remote.product
           /\ task[r].requests = (Len(remote.product) \div task[r].limit) + 1

\* A call with expand and a limit above the cap on a collection longer
\* than the cap, loaded whole in more requests than the limit asked for
\* would have taken.
C30_Witness ==
  \E r \in Runs :
    /\ task[r].requested /\ task[r].call.expand /\ ~task[r].fetch_failed
    /\ task[r].call.limit > ExpandLimit
    /\ Len(remote.product) > task[r].call.limit
    /\ task[r].buffer = remote.product
    /\ task[r].requests > (Len(remote.product) \div task[r].call.limit) + 1

\* C31: the result a full sync returns has status, duration_seconds, a
\* summary of total_created, total_updated and total_errors and per-entity
\* details, and each total is the sum of that count over the details.
C31_FullSyncResultShape ==
  \A r \in Runs :
    (task[r].pc = "task_ok" /\ task[r].kind = "full") =>
      LET res == task[r].result IN
      /\ {"status", "duration_seconds", "summary", "details"} \subseteq DOMAIN res
      /\ DOMAIN res.summary = {"total_created", "total_updated", "total_errors"}
      /\ res.summary.total_created = Total(res.details, "created")
      /\ res.summary.total_updated = Total(res.details, "updated")
      /\ res.summary.total_errors = Total(res.details, "errors")

\* Number of rows of the collection that request number k of a call is
\* answered with.
Returned(r, k) == Len(Page(remote.product, task[r].offsets[k], task[r].limit))

\* C32: a call of get_paginated in which no request failed returns every
\* row of the collection exactly once and in remote order, each request's
\* offset being the previous one plus the number of rows returned.
C32_EveryRowOnceInOrder ==
  \A r \in Runs :
    (task[r].requested /\ ~task[r].fetch_failed /\ task[r].pc = "idle") =>
      LET rows == remote.product
          got == task[r].buffer
      IN /\ \A i \in DOMAIN rows :
              Cardinality({j \in DOMAIN got : got[j] = rows[i]}) = 1
         /\ \A j \in DOMAIN got : \E i \in DOMAIN rows : got[j] = rows[i]
         /\ \A j, k \in DOMAIN got :
              j < k => \E a, b \in DOMAIN rows :
                         a < b /\ rows[a] = got[j] /\ rows[b] = got[k]
         /\ task[r].offsets[1] = 0
         /\ \A k \in 1..(Len(task[r].offsets) - 1) :
              task[r].offsets[k + 1] = task[r].offsets[k] + Returned(r, k)

\* A collection of several full pages and a short one, loaded whole.
C32_Witness ==
  \E r \in Runs :
    /\ task[r].requested /\ ~task[r].fetch_failed /\ task[r].pc = "idle"
    /\ task[r].limit > 1
    /\ Len(task[r].offsets) >= 2
    /\ Len(remote.product) % task[r].limit # 0
    /\ Len(task[r].buffer) = Len(remote.product)

\* C35: a call of get_paginated ends after at most one request more than
\* the collection has rows: every request but the last of a call is
\* followed by one at a strictly larger offset, and no offset lies beyond
\* the end of the collection.
C35_PaginationTerminates ==
  \A r \in Runs :
    (task[r].requested /\ task[r].pc = "idle") =>
      /\ Len(task[r].offsets) = task[r].requests
      /\ task[r].requests <= Len(remote.product) + 1
      /\ \A k \in 1..(Len(task[r].offsets) - 1) :
           task[r].offsets[k] < task[r].offsets[k + 1]
      /\ \A k \in DOMAIN task[r].offsets : task[r].offsets[k] <= Len(remote.product)

\* A call that needs as many requests as the bound allows: one row a page.
C35_Witness ==
  \E r \in Runs :
    /\ task[r].requested /\ task[r].pc = "idle"
    /\ Len(remote.product) >= 2
    /\ task[r].requests = Len(remote.product) + 1
    /\ task[r].offsets[task[r].requests] = Len(remote.product)

\* C33: an incremental sync task whose sync failed does not raise: it ends
\* by returning an error result, with its job row committed as failed and
\* carrying the error message.
C33_IncrementalNeverRaises ==
  \A r \in Runs :
    (task[r].kind = "incremental" /\ task[r].pc = "done"
       /\ task[r].exc # "none") =>
      /\ task[r].outcome = "returned"
      /\ "error" \in DOMAIN task[r].result
      /\ job_table[r].status = "failed"
      /\ job_table[r].error_message = ErrorMessage(task[r].exc, task[r].error)

\* The href of a reference pointer: the pointer itself when it is a
\* string, its meta.href when it is an object that has one, else null.
HrefOf(obj) ==
  IF obj.type = "string" THEN obj
  ELSE IF obj.type = "dict" /\ Has(obj.items, "meta")
          /\ obj.items.meta.type = "dict" /\ Has(obj.items.meta.items, "href")
  THEN obj.items.meta.items.href
  ELSE JNull

\* C34: the identifier extracted from a reference pointer is the last path
\* segment of its href, for an object with meta.href and for a bare href
\* string alike; a null pointer, an empty object and a pointer without an
\* href give null; no call raises.
C34_ExtractIdLastSegment ==
  \A r \in Runs :
    task[r].fn = "extract_id_from_meta_or_href" =>
      LET href == HrefOf(task[r].pointer) IN
      /\ task[r].mapped.exc = "none"
      /\ task[r].mapped.v =
           IF href.type = "string" /\ Len(href.s) > 0
           THEN JStr(<< href.s[Len(href.s)] >>) ELSE JNull

\* Number of the records of run r's batch handled so far that carry an id.
WithId(r) ==
  Cardinality({ i \in 1..(task[r].pos - 1) :
                  ExternalIdOf(EntityOf(r), task[r].buffer[i]) # NULL })

Tally(c) == c.created + c.updated + c.errors

\* C36: throughout a batch of a sync method of FixedMoySkladSyncService the
\* created, updated and errors counters of the entity type add up to the
\* number of records handled so far that carry an id; a step that handles
\* a record without an id changes no counter and no table.
C36_OneCounterPerRecord ==
  [][ \A r \in Runs :
        (task[r].svc = "fixed" /\ task[r].pc = "upsert") =>
          LET t == EntityOf(r) IN
          /\ Tally(task[r].results[t]) = WithId(r)
          /\ (task'[r].pc = "upsert" /\ task'[r].pos = task[r].pos + 1) =>
               IF ExternalIdOf(t, RecordOf(r)) = NULL
               THEN /\ task'[r].results = task[r].results
                    /\ db' = db
               ELSE /\ Tally(task'[r].results[t]) = Tally(task[r].results[t]) + 1
                    /\ \A q \in FixedTables \ {t} :
                         task'[r].results[q] = task[r].results[q] ]_vars

\* Number of the remote records of type t that a call which fetches t
\* counts: those that carry an id and those whose id extraction raises.
Counted(t) ==
  Cardinality({ i \in 1..Len(remote[t]) :
                  ExternalIdOf(t, remote[t][i]) # NULL
                    \/ ExtractionRaises(t, remote[t][i]) })

TallyOf(c) == Get(c, "created", 0) + Get(c, "updated", 0) + Get(c, "errors", 0)

\* The per-entity tallies of a returned result.
DetailsOf(res) == IF Has(res, "details") THEN res.details ELSE res.results

\* C37: the per-entity tallies in the result a sync returns count the
\* records that call has processed and no others: the records of the entity
\* types the call syncs, none for any other entity type, also when the
\* service instance has run a sync before.
C37_TalliesOfThisCall ==
  \A r \in Runs :
    (task[r].pc = "task_ok" /\ task[r].calls > 0) =>
      LET details == DetailsOf(task[r].result) IN
      \A t \in DOMAIN details :
        TallyOf(details[t]) =
          IF t \in Range(Order(task[r].svc, task[r].kind)) THEN Counted(t) ELSE 0

\* C38: a resolver statement inserts and deletes no row, changes no table
\* but the dependent one of its triple, and leaves every column of every
\* dependent row but the resolved field of the triple as it was (the
\* external identifier, the pending reference fields, the other resolved
\* fields and the timestamps among them).
C38_ResolverFrame ==
  [][ \A r \in Runs : ResolverStep(r) =>
        LET fk == StatementOf(r) IN
        /\ \A t \in Tables \ {fk.dep} : db'[t] = db[t]
        /\ Cardinality(db'[fk.dep]) = Cardinality(db[fk.dep])
        /\ \A row \in db[fk.dep] : \E row2 \in db'[fk.dep] :
             /\ row2.id = row.id
             /\ DOMAIN row2 = DOMAIN row
             /\ \A c \in DOMAIN row \ {fk.resolved} : row2[c] = row[c]
        /\ seq' = seq ]_vars

\* A finished pass that linked an employee to its organization and left
\* the row's timestamps as the upsert wrote them.
C38_Witness ==
  \E r \in Runs :
    /\ PassDone(r) /\ task[r].svc = "plain"
    /\ \E row \in db["employee"] : \E p \in db["organization"] :
         /\ row.organization_external_id = p.external_id
         /\ row.organization_id = p.id
         /\ row.updated_at = row.last_sync_at

====
